---- MODULE Spec2Model ----
(***************************************************************************)
(* A model of the course-recommendation lambdas:                           *)
(*   lambdas/code/agent_actions/opensearch_utils.py  (retry wrapper,       *)
(*       embedding, semantic search, hit formatting)                       *)
(*   lambdas/code/agent_actions/index.py             (function dispatcher, *)
(*       extraction, pagination, booking, greeting, envelope)              *)
(*                                                                         *)
(* Strings that the code takes apart (split, strip, strftime, lower, "in") *)
(* are sequences: a text is a sequence of one-character strings, an error  *)
(* message is a sequence of words.  Time is counted in whole seconds.      *)
(***************************************************************************)
EXTENDS Integers, Sequences, FiniteSets, TLC

\* ------------------------------------------------------------------ bounds
\* retry_with_backoff is explored for max_retries in 0..MaxRetriesBound,
\* initial_backoff in 1..MaxInitialBackoff, max_backoff in 1..MaxBackoffBound.
MaxRetriesBound == 2
MaxInitialBackoff == 2
MaxBackoffBound == 3
\* the index holds at most MaxHits documents; pages 1..MaxPage of 1..MaxPageSize
MaxHits == 3
MaxPage == 2
MaxPageSize == 3
MaxRecords == 3
MaxAttemptsBound == 3

\* --------------------------------------------------------- program constants
DefaultMaxRetries == 5
DefaultK == 10
HandlerPage == 1
HandlerPageSize == 10

Min(a, b) == IF a <= b THEN a ELSE b
Max(a, b) == IF a >= b THEN a ELSE b

VARIABLES
    \* --- one run of retry_with_backoff(func, max_retries, initial_backoff, max_backoff)
    max_retries,      \* argument
    initial_backoff,  \* argument
    max_backoff,      \* argument
    retries,          \* local: retries made so far
    backoff,          \* local: base backoff of the next sleep
    pc,               \* "call" | "backoff" | "returned" | "raised"
    trace,            \* what the wrapper did, in order: calls of func and sleeps
    result,           \* the value returned or the exception raised
    \* --- one invocation of index.lambda_handler
    event,            \* the event it was invoked with (NoEvent before)
    environ,          \* what each dependency did during the invocation
    response,         \* what the invocation produced
    \* --- the index and two successive calls of index.search_courses
    index,            \* the documents of the index, in stored order
    first,            \* the first call: request, dependencies, outcome
    second,           \* the second call
    \* --- one invocation of whatsapp_forwarder.lambda_handler
    inbox,            \* the event: its records, what the agent and the channel do
    cursor,           \* the record the `for` loop is at
    effects,          \* agent invocations and channel sends made so far, in order
    outcome,          \* where the handler is and what it returned
    \* --- successive calls of index.book_course
    bookings,         \* each call: its request, the clock reading, what it returned
    \* --- one invocation of update_lambda.handler
    cfn_event,        \* the custom-resource request
    lambda_status,    \* LastUpdateStatus of the function being updated
    max_attempts,     \* argument of wait_for_lambda_update
    attempt,          \* polls made so far by wait_for_lambda_update
    upc,              \* "idle" | "start" | "polling" | "done"
    ulog,             \* what the invocation did, in order
    waited            \* how wait_for_lambda_update ended

retryVars == <<max_retries, initial_backoff, max_backoff, retries, backoff, pc, trace, result>>
handlerVars == <<event, environ, response>>
searchVars == <<index, first, second>>
forwarderVars == <<inbox, cursor, effects, outcome>>
bookingVars == <<bookings>>
updaterVars == <<cfn_event, lambda_status, max_attempts, attempt, upc, ulog, waited>>
vars == <<retryVars, handlerVars, searchVars, forwarderVars, bookingVars, updaterVars>>

\* ------------------------------------------------------------ func outcomes
\* What one call of a wrapped function does: return a value, or raise.
\* cls is the exception class as the except clauses see it.
Ok(v) == [kind |-> "ok", cls |-> "-", code |-> "-", msg |-> <<>>, value |-> v]
ClientError(code, msg) ==
    [kind |-> "error", cls |-> "ClientError", code |-> code, msg |-> msg, value |-> "-"]
OtherException(msg) ==
    [kind |-> "error", cls |-> "Exception", code |-> "-", msg |-> msg, value |-> "-"]

\* str.lower(), word by word
LowerWord(w) ==
    CASE w = "Throttling" -> "throttling"
      [] w = "THROTTLING" -> "throttling"
      [] w = "Too" -> "too"
      [] w = "Many" -> "many"
      [] w = "Requests" -> "requests"
      [] w = "Request" -> "request"
      [] w = "Rate" -> "rate"
      [] w = "High" -> "high"
      [] OTHER -> w
Lower(m) == [i \in 1..Len(m) |-> LowerWord(m[i])]

\* "p in m" for strings: p occurs in m as a contiguous run
Contains(m, p) ==
    \E i \in 1..(Len(m) - Len(p) + 1) : SubSeq(m, i, i + Len(p) - 1) = p

ThrottleCodes == {"ThrottlingException", "TooManyRequestsException", "RequestLimitExceeded"}
PhraseRateTooHigh == <<"request", "rate", "is", "too", "high">>
PhraseThrottling == <<"throttling">>
PhraseTooManyRequests == <<"too", "many", "requests">>

\* the test of the `except ClientError` clause
ClientErrorIsThrottling(e) ==
    \/ e.code \in ThrottleCodes
    \/ Contains(Lower(e.msg), PhraseRateTooHigh)
    \/ Contains(Lower(e.msg), PhraseThrottling)

\* the test of the `except Exception` clause
ExceptionIsThrottling(e) ==
    \/ Contains(Lower(e.msg), PhraseRateTooHigh)
    \/ Contains(Lower(e.msg), PhraseThrottling)
    \/ Contains(Lower(e.msg), PhraseTooManyRequests)

\* which errors the wrapper retries
IsThrottling(e) ==
    IF e.cls = "ClientError" THEN ClientErrorIsThrottling(e) ELSE ExceptionIsThrottling(e)

\* mutants: giving up one failure early, and one failure late
RetriesExhausted_Early(r, m) == r + 1 >= m
RetriesExhausted_Late(r, m) == r > m

\* `if retries >= max_retries: raise e`
RetriesExhausted(r, m) == r >= m

\* sleep_time = min(backoff + random.uniform(0, 1), max_backoff)
SleepTime(b, jitter, mb) == Min(b + jitter, mb)

\* mutant: the doubled backoff without its cap
NextBackoff_Uncapped(b, mb) == b * 2

\* backoff = min(backoff * 2, max_backoff)
NextBackoff(b, mb) == Min(b * 2, mb)

\* mutants: every error is retried; no error is retried
AfterError_RetryAll(e, r, m) == IF ~RetriesExhausted(r, m) THEN "backoff" ELSE "raised"
AfterError_NoRetry(e, r, m) == "raised"

\* what an except clause does with the error e it caught: wait and retry, or `raise e`
AfterError(e, r, m) ==
    IF IsThrottling(e) /\ ~RetriesExhausted(r, m) THEN "backoff" ELSE "raised"

\* ------------------------------------------------- retry_with_backoff, by step
\* One entry of trace per thing the wrapper does.
CallEv(o) == [ev |-> "call", out |-> o, t |-> 0]
SleepEv(t) == [ev |-> "sleep", out |-> Ok("-"), t |-> t]

NoResult == Ok("none")

\* what func() may do on one call
FuncOutcomes ==
    { Ok("v1"), Ok("v2"),
      ClientError("ThrottlingException", <<"Rate", "exceeded">>),
      ClientError("InternalFailure", <<"Request", "rate", "is", "too", "High">>),
      ClientError("ValidationException", <<"Too", "Many", "Requests">>),
      ClientError("AccessDeniedException", <<"not", "authorized">>),
      OtherException(<<"THROTTLING", "by", "proxy">>),
      OtherException(<<"429", "too", "many", "requests">>),
      OtherException(<<"connection", "refused">>) }

\* random.uniform(0, 1): the two ends of the interval
Jitters == {0, 1}

RetryIdle ==
    /\ max_retries = 0 /\ initial_backoff = 1 /\ max_backoff = 1
    /\ retries = 0 /\ backoff = 1
    /\ pc = "idle" /\ trace = <<>> /\ result = NoResult

\* entry of retry_with_backoff: retries = 0, backoff = initial_backoff
RetryInit ==
    /\ max_retries \in 0..MaxRetriesBound
    /\ initial_backoff \in 1..MaxInitialBackoff
    /\ max_backoff \in 1..MaxBackoffBound
    /\ retries = 0
    /\ backoff = initial_backoff
    /\ pc = "call"
    /\ trace = <<>>
    /\ result = NoResult

\* `return func()` and the two except clauses up to the decision to raise or to wait
Attempt ==
    /\ pc = "call"
    /\ \E o \in FuncOutcomes :
        /\ trace' = Append(trace, CallEv(o))
        /\ IF o.kind = "ok"
             THEN pc' = "returned" /\ result' = o
             ELSE IF AfterError(o, retries, max_retries) = "backoff"
                    THEN pc' = "backoff" /\ result' = result
                    ELSE pc' = "raised" /\ result' = o
    /\ UNCHANGED <<max_retries, initial_backoff, max_backoff, retries, backoff>>
    /\ UNCHANGED <<handlerVars, searchVars, forwarderVars, bookingVars, updaterVars>>

\* mutant: the retry budget tested after the sleep instead of before it
AfterSleep_Recheck(r, m) == IF RetriesExhausted(r, m) THEN "raised" ELSE "call"

\* after the sleep the `while True` loop goes round to the next call of func
AfterSleep(r, m) == "call"

\* time.sleep(sleep_time); retries += 1; backoff = min(backoff * 2, max_backoff)
Sleep ==
    /\ pc = "backoff"
    /\ \E j \in Jitters :
        trace' = Append(trace, SleepEv(SleepTime(backoff, j, max_backoff)))
    /\ retries' = retries + 1
    /\ backoff' = NextBackoff(backoff, max_backoff)
    /\ pc' = AfterSleep(retries + 1, max_retries)
    /\ UNCHANGED <<max_retries, initial_backoff, max_backoff, result>>
    /\ UNCHANGED <<handlerVars, searchVars, forwarderVars, bookingVars, updaterVars>>

RetryNext == Attempt \/ Sleep

\* ------------------------------------------------------------ idle components
NoEvent == [py |-> "no event"]
NoEnviron == [init |-> "-"]
NoResponse ==
    [raised |-> FALSE, envelope |-> [py |-> "none"], searched |-> <<>>,
     retrieved |-> <<>>, did |-> {}]
HandlerIdle == event = NoEvent /\ environ = NoEnviron /\ response = NoResponse

NoCall == [called |-> FALSE]
SearchIdle == index = <<>> /\ first = NoCall /\ second = NoCall
NoInbox == [py |-> "no event"]
NoOutcome == [state |-> "idle", statusCode |-> 0, raised |-> FALSE]
ForwarderIdle == inbox = NoInbox /\ cursor = 0 /\ effects = <<>> /\ outcome = NoOutcome
BookingIdle == bookings = <<>>
NoRequest == [py |-> "no event"]
UpdaterIdle ==
    /\ cfn_event = NoRequest /\ lambda_status = "Successful" /\ max_attempts = 0
    /\ attempt = 0 /\ upc = "idle" /\ ulog = <<>> /\ waited = "-"
OthersIdle == BookingIdle /\ UpdaterIdle

\* ---------------------------------------- retry_with_backoff, as one evaluation
\* A wrapped function's behaviour over its successive calls: call i does
\* script[i], and every call after the last entry does what the last entry does.
ScriptAt(script, i) == script[Min(i, Len(script))]

\* The wrapper's while loop: the outcome of call number i with r retries made.
\* The result is the value returned (kind "ok") or the exception raised.
RECURSIVE RetryLoop(_, _, _, _)
RetryLoop(script, i, r, m) ==
    LET o == ScriptAt(script, i) IN
    IF o.kind = "ok" THEN o
    ELSE IF AfterError(o, r, m) = "backoff" THEN RetryLoop(script, i + 1, r + 1, m)
    ELSE o

\* retry_with_backoff(func) with the default max_retries
RetryWithBackoff(script) == RetryLoop(script, 1, 0, DefaultMaxRetries)

\* -------------------------------------------------------------------- texts
\* str as a sequence of characters
IsSpace(c) == c \in {" ", "\n"}

\* str.strip()
RECURSIVE LStrip(_)
LStrip(s) == IF s # <<>> /\ IsSpace(Head(s)) THEN LStrip(Tail(s)) ELSE s
RECURSIVE RStrip(_)
RStrip(s) ==
    IF s # <<>> /\ IsSpace(s[Len(s)]) THEN RStrip(SubSeq(s, 1, Len(s) - 1)) ELSE s
Strip(s) == RStrip(LStrip(s))

\* str.split(): the maximal runs of non-whitespace characters, in order
RECURSIVE SplitFrom(_, _)
SplitFrom(s, cur) ==
    IF s = <<>> THEN (IF cur = <<>> THEN <<>> ELSE <<cur>>)
    ELSE IF IsSpace(Head(s))
           THEN (IF cur = <<>> THEN <<>> ELSE <<cur>>) \o SplitFrom(Tail(s), <<>>)
           ELSE SplitFrom(Tail(s), Append(cur, Head(s)))
Split(s) == SplitFrom(s, <<>>)

StrGeneral == <<"g", "e", "n", "e", "r", "a", "l">>
StrNONE == <<"N", "O", "N", "E">>
PyNone == <<"<None>">>

\* s[a:b] of a Python sequence, for any integers a and b
SliceIndex(i, n) == IF i < 0 THEN Max(i + n, 0) ELSE Min(i, n)
PySlice(s, a, b) ==
    LET lo == SliceIndex(a, Len(s))
        hi == SliceIndex(b, Len(s))
    IN IF lo >= hi THEN <<>> ELSE SubSeq(s, lo + 1, hi)

\* dict.get(key, default); a dict is a function on its keys
Get(d, k, default) == IF k \in DOMAIN d THEN d[k] ELSE default

\* ------------------------------------------------------------- the index
\* The _source of the document stored under _id i.  Odd documents carry a
\* difficultyLevel and a courseId of their own, even ones carry neither.
LevelBeginner == <<"b">>
DocSource(i) ==
    IF i % 2 = 1
      THEN [title |-> i, difficultyLevel |-> LevelBeginner, courseId |-> 100 + i]
      ELSE [title |-> i]

\* the indexes explored: documents 1..n
Indexes == { [i \in 1..n |-> i] : n \in 0..MaxHits }

\* get_embedding's result for a text: the model is a function of the text
Embedding(text) == [vector |-> text]

\* The _score of document i for a query vector: queries of even length rank the
\* highest _id first, queries of odd length the lowest.
Score(vec, i) == IF Len(vec.vector) % 2 = 0 THEN i ELSE 100 - i

\* a term filter: the document has the field with exactly that value
MatchesFilters(i, filters) ==
    \A f \in 1..Len(filters) :
        /\ filters[f].field \in DOMAIN DocSource(i)
        /\ DocSource(i)[filters[f].field] = filters[f].value

Hit(vec, i) == [_id |-> i, _score |-> Score(vec, i), _source |-> DocSource(i)]

\* hits by descending _score
RECURSIVE RankDesc(_, _)
RankDesc(ids, vec) ==
    IF ids = {} THEN <<>>
    ELSE LET best == CHOOSE i \in ids : \A j \in ids : Score(vec, i) >= Score(vec, j)
         IN <<Hit(vec, best)>> \o RankDesc(ids \ {best}, vec)

\* opensearch.search(index, body): the k nearest documents that pass the filters
KnnSearch(idx, vec, filters, k) ==
    LET ids == { idx[n] : n \in { m \in 1..Len(idx) : MatchesFilters(idx[m], filters) } }
    IN PySlice(RankDesc(ids, vec), 0, k)

\* ------------------------------------------------------- opensearch_utils.py
\* What the dependencies of one semantic_search do: env.init is "ok" or "raise",
\* env.embed and env.search are the scripts of the two wrapped calls.
Raised(e) == [raised |-> TRUE, error |-> e, hits |-> <<>>]
InitError == OtherException(<<"Credentials", "cannot", "be", "empty">>)

\* semantic_search(query_text, filters, k=10)
SemanticSearch(query_text, filters, idx, env) ==
    IF env.init = "raise" THEN Raised(InitError)
    ELSE LET emb == RetryWithBackoff(env.embed) IN
         IF emb.kind = "error" THEN Raised(emb)
         ELSE LET res == RetryWithBackoff(env.search) IN
              IF res.kind = "error" THEN Raised(res)
              ELSE [raised |-> FALSE, error |-> Ok("-"),
                    hits |-> KnnSearch(idx, Embedding(query_text), filters, DefaultK)]

\* the loop body of search_courses: the course of one hit
FormatHit(hit) ==
    LET src == hit._source IN
    [k \in DOMAIN src \cup {"score", "courseId"} |->
        IF k = "score" THEN hit._score
        ELSE IF k = "courseId"
               THEN (IF "courseId" \in DOMAIN src THEN src.courseId ELSE hit._id)
               ELSE src[k]]

\* mutant: the courses collected in the reverse of the hits' order
SemanticSearchCourses_Reversed(query, filters, idx, env) ==
    LET r == SemanticSearch(query, filters, idx, env) IN
    IF r.raised THEN <<>>
    ELSE [n \in 1..Len(r.hits) |-> FormatHit(r.hits[Len(r.hits) + 1 - n])]

\* opensearch_utils.search_courses(query, filters)
SemanticSearchCourses(query, filters, idx, env) ==
    LET r == SemanticSearch(query, filters, idx, env) IN
    IF r.raised THEN <<>>
    ELSE [n \in 1..Len(r.hits) |-> FormatHit(r.hits[n])]

\* ------------------------------------------------- index.py: search_courses
Truthy(text) == text # PyNone /\ text # <<>>
NoneResult == [py |-> "None"]

\* mutant: the page count rounded down
TotalPages_Floor(total_results, page_size) == total_results \div page_size

\* total_pages = (total_results + page_size - 1) // page_size
TotalPages(total_results, page_size) == (total_results + page_size - 1) \div page_size

\* mutant: pages counted from 0
Paginate_FromZero(courses, page, page_size) ==
    PySlice(courses, page * page_size, page * page_size + page_size)

\* courses[start_idx:end_idx]
Paginate(courses, page, page_size) ==
    LET start_idx == (page - 1) * page_size
        end_idx == start_idx + page_size
    IN PySlice(courses, start_idx, end_idx)

\* the calls of semantic_search_courses that search_courses makes: one, with the
\* subject as query text and the difficultyLevel filter when a level is given
SearchCoursesCalls(request_body) ==
    LET subject == Get(request_body, "subject", <<>>)
        level == Get(request_body, "level", PyNone)
        filters == IF Truthy(level)
                     THEN <<[field |-> "difficultyLevel", value |-> level]>>
                     ELSE <<>>
    IN <<[query_text |-> subject, filters |-> filters]>>

\* index.search_courses(request_body)
SearchCourses(request_body, idx, env) ==
    LET call == SearchCoursesCalls(request_body)[1]
        page == Get(request_body, "page", 1)
        page_size == Get(request_body, "page_size", 10)
        courses == SemanticSearchCourses(call.query_text, call.filters, idx, env)
    IN IF page_size = 0
         THEN NoneResult   \* ZeroDivisionError, logged: the function returns None
         ELSE [courses |-> Paginate(courses, page, page_size),
               totalResults |-> Len(courses),
               currentPage |-> page,
               totalPages |-> TotalPages(Len(courses), page_size)]

\* ------------------------------------------------------- index.py: messages
\* An f-string with one hole is its template and what fills the hole.
MsgFixed(template) == [template |-> template]
MsgText(template, text) == [template |-> template, text |-> text]
MsgName(template, name) == [template |-> template, name |-> name]
\* str(e) of an exception
StrOfError(e) == [template |-> "{}", words |-> e.msg]

\* --------------------------------------------- index.py: format_response
\* json.dumps(body) of a dict, str(body) of anything else: either way a str
IsDictOrList(body) == "py" \notin DOMAIN body
JsonDumps(body) == [type |-> "str", encoding |-> "json", of |-> body]
Str(body) == [type |-> "str", encoding |-> "str", of |-> body]

FormatResponse(body, status_code, function_name) ==
    [messageVersion |-> "1.0",
     response |->
        [actionGroup |-> "CourseOperations",
         function |-> function_name,
         functionResponse |->
            [responseBody |->
                [TEXT |-> [body |-> IF IsDictOrList(body) THEN JsonDumps(body) ELSE Str(body)]]]],
     sessionAttributes |-> {},
     promptSessionAttributes |-> {}]

\* ----------------------------------- index.py: extract_subject, extract_parameter
\* extract_subject(input_text); script is what bedrock.converse does, its values
\* the text of the model's answer
ExtractSubject(input_text, script) ==
    LET r == RetryWithBackoff(script) IN
    IF r.kind = "ok" THEN Strip(r.value)
    ELSE LET words == Split(input_text) IN
         IF words # <<>> THEN words[1] ELSE StrGeneral

\* mutant: the text of the error returned as the value of the parameter
ExtractParameter_ErrorText(input_text, script) ==
    LET r == RetryWithBackoff(script) IN
    IF r.kind = "ok"
      THEN (IF Strip(r.value) # StrNONE THEN Strip(r.value) ELSE PyNone)
      ELSE r.msg

\* extract_parameter(input_text, param_type)
ExtractParameter(input_text, script) ==
    LET r == RetryWithBackoff(script) IN
    IF r.kind = "ok"
      THEN (IF Strip(r.value) # StrNONE THEN Strip(r.value) ELSE PyNone)
      ELSE PyNone

\* ------------------------------------------- index.py: get_course_details
\* the calls of semantic_search_courses that get_course_details makes: none
\* without a title, else one with the title as query text and no filters
GetCourseDetailsCalls(request_body) ==
    LET course_title == Get(request_body, "course_title", <<>>) IN
    IF course_title = <<>>
      THEN <<>>
      ELSE <<[query_text |-> course_title, filters |-> <<>>]>>

\* mutant: the last course found instead of the first
GetCourseDetails_Last(request_body, idx, env) ==
    LET course_title == Get(request_body, "course_title", <<>>)
        calls == GetCourseDetailsCalls(request_body)
    IN
    IF calls = <<>>
      THEN [success |-> FALSE, message |-> MsgFixed("Course title is required")]
      ELSE LET found == SemanticSearchCourses(calls[1].query_text, calls[1].filters,
                                              idx, env) IN
           IF found = <<>>
             THEN [success |-> FALSE,
                   message |-> MsgText("Course with title '{}' not found", course_title)]
             ELSE [course |-> found[Len(found)], success |-> TRUE]

GetCourseDetails(request_body, idx, env) ==
    LET course_title == Get(request_body, "course_title", <<>>)
        calls == GetCourseDetailsCalls(request_body)
    IN
    IF calls = <<>>
      THEN [success |-> FALSE, message |-> MsgFixed("Course title is required")]
      ELSE LET found == SemanticSearchCourses(calls[1].query_text, calls[1].filters,
                                              idx, env) IN
           IF found = <<>>
             THEN [success |-> FALSE,
                   message |-> MsgText("Course with title '{}' not found", course_title)]
             ELSE [course |-> found[1], success |-> TRUE]

\* mutant: the greeting as a plain text payload
HandleGreeting_Text ==
    [messageFormat |-> "custom",
     responseType |-> "text",
     message |-> MsgFixed("Welcome to our technical course recommender! Here are popular technical categories to explore.")]

\* ------------------------------------------------ index.py: handle_greeting
HandleGreeting ==
    [messageFormat |-> "custom",
     responseType |-> "carousel",
     message |-> MsgFixed("Welcome to our technical course recommender! Here are popular technical categories to explore.")]

\* --------------------------------------------------- index.py: book_course
DigitChars == <<"0", "1", "2", "3", "4", "5", "6", "7", "8", "9">>
RECURSIVE Decimal(_)
Decimal(n) ==
    IF n < 10 THEN <<DigitChars[n + 1]>>
    ELSE Decimal(n \div 10) \o <<DigitChars[(n % 10) + 1]>>
\* mutant: no zero fill (%-m in place of %m)
ZeroFill_None(digits, width) == digits

\* a number in at least `width` digits, zero-filled: strftime's %Y (4), %m %d %H %M %S (2)
RECURSIVE ZeroFill(_, _)
ZeroFill(digits, width) ==
    IF Len(digits) >= width THEN digits ELSE ZeroFill(<<"0">> \o digits, width)
Field(n, width) == ZeroFill(Decimal(n), width)

\* mutant: the timestamp without its seconds ('%Y%m%d%H%M')
StrfTimestamp_Minutes(now) ==
    Field(now.year, 4) \o Field(now.month, 2) \o Field(now.day, 2)
        \o Field(now.hour, 2) \o Field(now.minute, 2)

\* datetime.strftime('%Y%m%d%H%M%S')
StrfTimestamp(now) ==
    Field(now.year, 4) \o Field(now.month, 2) \o Field(now.day, 2)
        \o Field(now.hour, 2) \o Field(now.minute, 2) \o Field(now.second, 2)
\* datetime.strftime('%Y-%m-%d')
StrfDate(now) ==
    Field(now.year, 4) \o <<"-">> \o Field(now.month, 2) \o <<"-">> \o Field(now.day, 2)

\* book_course(request_body) at clock reading now
BookCourse(request_body, now) ==
    [booking_id |-> <<"B", "K", "-">> \o StrfTimestamp(now),
     course_title |-> Get(request_body, "course_title", PyNone),
     user_name |-> Get(request_body, "user_name", PyNone),
     user_email |-> Get(request_body, "user_email", PyNone),
     start_date |-> StrfDate(now),
     status |-> "CONFIRMED",
     message |-> MsgText("Successfully booked \"{}\"", Get(request_body, "course_title", PyNone)),
     success |-> TRUE]

\* ------------------------------------- calls of index.search_courses, one by one
Throttled == ClientError("ThrottlingException", <<"Rate", "exceeded">>)
Refused == OtherException(<<"connection", "refused">>)

\* what the dependencies of a search may do
EnvAllOk == [init |-> "ok", embed |-> <<Ok("vector")>>, search |-> <<Ok("hits")>>]
EnvEmbedRetried == [init |-> "ok", embed |-> <<Throttled, Ok("vector")>>, search |-> <<Ok("hits")>>]
EnvSearchFatal == [init |-> "ok", embed |-> <<Ok("vector")>>, search |-> <<Refused>>]
EnvEmbedExhausted == [init |-> "ok", embed |-> <<Throttled>>, search |-> <<Ok("hits")>>]
EnvInitRaises == [init |-> "raise", embed |-> <<Ok("vector")>>, search |-> <<Ok("hits")>>]
SearchEnvs == {EnvAllOk, EnvEmbedRetried, EnvSearchFatal, EnvEmbedExhausted, EnvInitRaises}

Subjects == {<<"p", "y">>, <<"a", "w", "s">>}

\* the request bodies explored; the key "level" is there only when a level is set
Requests ==
    { [subject |-> s, page |-> p, page_size |-> z] :
        s \in Subjects, p \in 1..MaxPage, z \in 0..MaxPageSize }
    \cup
    { [subject |-> s, level |-> LevelBeginner, page |-> p, page_size |-> z] :
        s \in Subjects, p \in 1..MaxPage, z \in 0..MaxPageSize }

CallRecord(request_body, env, idx) ==
    [called |-> TRUE, request |-> request_body, env |-> env, index |-> idx,
     result |-> SearchCourses(request_body, idx, env)]

\* one call of index.search_courses(request_body); the index is only read
search_courses ==
    /\ second = NoCall
    /\ \E request_body \in Requests, env \in SearchEnvs :
         IF first = NoCall
           THEN first' = CallRecord(request_body, env, index) /\ second' = second
           ELSE second' = CallRecord(request_body, env, index) /\ first' = first
    /\ UNCHANGED index
    /\ UNCHANGED <<retryVars, handlerVars, forwarderVars, bookingVars, updaterVars>>

InitSearch ==
    RetryIdle /\ HandlerIdle /\ ForwarderIdle /\ OthersIdle
      /\ index \in Indexes /\ first = NoCall /\ second = NoCall
SpecSearch == InitSearch /\ [][search_courses]_vars

\* ------------------------------------------------ index.py: lambda_handler
\* the parameters dict built from the event's list of {name, value}
IsParam(item) ==
    IsDictOrList(item) /\ "name" \in DOMAIN item /\ "value" \in DOMAIN item
RECURSIVE BuildParameters(_, _)
BuildParameters(items, acc) ==
    IF items = <<>> THEN acc
    ELSE LET item == Head(items) IN
         BuildParameters(Tail(items),
            IF IsParam(item)
              THEN [k \in DOMAIN acc \cup {item.name} |->
                        IF k = item.name THEN item.value ELSE acc[k]]
              ELSE acc)
Parameters(ev) ==
    IF "parameters" \in DOMAIN ev /\ ev.parameters.list
      THEN BuildParameters(ev.parameters.items, <<>>)
      ELSE <<>>

\* the request body of the searchCourses branch
SearchRequestBody(subject, level, duration, price_range) ==
    LET keys == {"subject", "page", "page_size"}
                  \cup (IF Truthy(level) THEN {"level"} ELSE {})
                  \cup (IF Truthy(duration) THEN {"duration"} ELSE {})
                  \cup (IF Truthy(price_range) THEN {"price_range"} ELSE {})
    IN [k \in keys |->
          CASE k = "subject" -> subject
            [] k = "page" -> HandlerPage
            [] k = "page_size" -> HandlerPageSize
            [] k = "level" -> level
            [] k = "duration" -> duration
            [] k = "price_range" -> price_range]

\* The outcome of the try block: an envelope returned, or an exception thrown out
\* of it; bound tells whether function_name was assigned before the exception.
\* searched lists the request bodies handed to search_courses, retrieved the
\* calls of semantic_search_courses, did the steps taken.
Returned(envelope, searched, retrieved, did) ==
    [threw |-> FALSE, error |-> Ok("-"), bound |-> TRUE,
     envelope |-> envelope, searched |-> searched, retrieved |-> retrieved, did |-> did]
Threw(error, bound, did) ==
    [threw |-> TRUE, error |-> error, bound |-> bound,
     envelope |-> [py |-> "none"], searched |-> <<>>, retrieved |-> <<>>, did |-> did]
AttributeError == OtherException(<<"object", "has", "no", "attribute", "get">>)

\* mutant: no function assumed when the event names none
DefaultFunction_None == "None"

\* the default of event.get('function', 'searchCourses')
DefaultFunction == "searchCourses"

\* mutant: the failure payload without the name of the function received
Unsupported_Unnamed(function_name) == [error |-> MsgFixed("Unsupported function")]

\* {"error": f"Unsupported function: {function_name}"}
Unsupported(function_name) ==
    [error |-> MsgName("Unsupported function: {}", function_name)]

TryBlock(ev, idx, env) ==
    IF ~IsDictOrList(ev) THEN Threw(AttributeError, FALSE, {})
    ELSE
    LET function_name == Get(ev, "function", DefaultFunction)
        input_text == Get(ev, "inputText", <<>>)
        parameters == Parameters(ev)
    IN
    IF env.init = "raise" THEN Threw(InitError, TRUE, {"init_opensearch"})
    ELSE IF function_name = "searchCourses" THEN
        LET query_text == Get(parameters, "text", input_text)
            subject == ExtractSubject(query_text, env.subject)
            level == ExtractParameter(query_text, env.level)
            duration == ExtractParameter(query_text, env.duration)
            price_range == ExtractParameter(query_text, env.price_range)
            request_body == SearchRequestBody(subject, level, duration, price_range)
        IN Returned(FormatResponse(SearchCourses(request_body, idx, env.retrieval),
                                   200, function_name),
                    <<request_body>>, SearchCoursesCalls(request_body),
                    {"init_opensearch", "extract_subject", "extract_parameter", "search_courses"})
    ELSE IF function_name = "getCourseDetails" THEN
        LET request_body == [course_title |-> Get(parameters, "course_title", <<>>)] IN
        Returned(FormatResponse(GetCourseDetails(request_body, idx, env.retrieval),
                                200, function_name),
                 <<>>, GetCourseDetailsCalls(request_body),
                 {"init_opensearch", "get_course_details"})
    ELSE IF function_name = "detectGreeting" THEN
        Returned(FormatResponse(HandleGreeting, 200, function_name),
                 <<>>, <<>>, {"init_opensearch", "handle_greeting"})
    ELSE IF function_name = "bookCourse" THEN
        Returned(FormatResponse(
                    BookCourse([course_title |-> Get(parameters, "course_title", <<>>),
                                user_name |-> Get(parameters, "user_name", <<>>),
                                user_email |-> Get(parameters, "user_email", <<>>)],
                               env.now),
                    200, function_name),
                 <<>>, <<>>, {"init_opensearch", "book_course"})
    ELSE
        Returned(FormatResponse(Unsupported(function_name), 400, function_name),
                 <<>>, <<>>, {"init_opensearch"})

\* mutant: the handler without its `except Exception`
LambdaHandler_NoExcept(ev, idx, env) ==
    LET t == TryBlock(ev, idx, env) IN
    [raised |-> t.threw, envelope |-> t.envelope, searched |-> t.searched,
     retrieved |-> t.retrieved, did |-> t.did]

\* lambda_handler(event, context): the try block and its `except Exception`
LambdaHandler(ev, idx, env) ==
    LET t == TryBlock(ev, idx, env) IN
    IF t.threw
      THEN [raised |-> FALSE,
            envelope |-> FormatResponse([error |-> StrOfError(t.error)], 500,
                            IF t.bound THEN Get(ev, "function", DefaultFunction) ELSE "error"),
            searched |-> <<>>,
            retrieved |-> <<>>,
            did |-> t.did]
      ELSE [raised |-> FALSE, envelope |-> t.envelope, searched |-> t.searched,
            retrieved |-> t.retrieved, did |-> t.did]

\* ------------------------------------------- invocations of lambda_handler
TextEmpty == <<>>
TextBlank == <<" ">>
TextPy == <<"p", "y">>
TextPyCourse == <<" ", "p", "y", " ", "c">>
TextAws == <<"a", "w", "s", "\n", "c">>
InputTexts == {TextEmpty, TextBlank, TextPy, TextPyCourse}

Param(name, value) == [name |-> name, value |-> value]
List(items) == [list |-> TRUE, items |-> items]
ParameterValues ==
    { List(<<>>),
      [list |-> FALSE, items |-> <<>>],
      List(<<Param("text", TextAws)>>),
      List(<<Param("course_title", TextPy)>>),
      List(<<Param("course_title", TextPy), Param("user_name", <<"n">>),
             Param("user_email", <<"e">>)>>),
      List(<<Param("user_name", <<"n">>), Param("user_name", <<"m">>),
             Param("user_email", <<"e">>), Param("course_title", TextAws)>>),
      List(<<[py |-> "str"], [name |-> "course_title"], Param("course_title", <<>>)>>) }

FunctionNames ==
    {"searchCourses", "getCourseDetails", "detectGreeting", "bookCourse",
     "deleteCourse", "SearchCourses"}

\* the events explored: each key of the event may be absent; an event may be no dict
Events ==
    { [function |-> f, inputText |-> t, parameters |-> ps] :
        f \in FunctionNames, t \in InputTexts, ps \in ParameterValues }
    \cup { [inputText |-> t, parameters |-> ps] : t \in InputTexts, ps \in ParameterValues }
    \cup { [function |-> f, inputText |-> t] : f \in FunctionNames, t \in {TextPyCourse} }
    \cup { [function |-> f] : f \in FunctionNames }
    \cup { [py |-> "None"] }

\* what bedrock.converse may do in an extraction: answer (at once or after a
\* throttling error), fail for good, or be throttled on every call
SubjectScripts ==
    { <<Ok(<<"p", "y">>)>>, <<Ok(<<" ", "a", "w", "s", "\n">>)>>, <<Ok(<<>>)>>, <<Ok(<<" ">>)>>,
      <<Throttled, Ok(<<"p", "y">>)>>, <<Refused>>, <<Throttled>> }
LevelScripts == { <<Ok(StrNONE)>>, <<Ok(<<"b", " ">>)>>, <<Throttled>> }
DurationScripts == { <<Ok(<<"4", "w">>)>>, <<Refused>> }
PriceScripts == { <<Ok(StrNONE)>>, <<Throttled, Ok(<<"f", "r", "e", "e">>)>>, <<Refused>> }
RetrievalEnvs == {EnvAllOk, EnvEmbedRetried, EnvSearchFatal, EnvEmbedExhausted, EnvInitRaises}

\* datetime.now()
Clock(y, mo, d, h, mi, sec) ==
    [year |-> y, month |-> mo, day |-> d, hour |-> h, minute |-> mi, second |-> sec]
Nows == { Clock(2026, 11, 3, 18, 5, 9), Clock(2026, 1, 1, 0, 0, 0), Clock(2027, 12, 31, 23, 59, 59) }

\* ------------------------------------ calls of index.book_course, one by one
MaxBookings == 2

\* datetime.now() also reads the microsecond
At(clock, us) ==
    [year |-> clock.year, month |-> clock.month, day |-> clock.day, hour |-> clock.hour,
     minute |-> clock.minute, second |-> clock.second, microsecond |-> us]
\* readings that differ in one field each, and two that swap month and day
BookingSeconds ==
    { Clock(2026, 11, 3, 18, 5, 9), Clock(2027, 11, 3, 18, 5, 9), Clock(2026, 1, 11, 18, 5, 9),
      Clock(2026, 11, 1, 18, 5, 9), Clock(2026, 11, 3, 19, 5, 9), Clock(2026, 11, 3, 18, 6, 9),
      Clock(2026, 11, 3, 18, 5, 10) }
BookingClocks == { At(c, us) : c \in BookingSeconds, us \in {0, 500000} }
BookingRequests ==
    { [course_title |-> <<"G", "o">>, user_name |-> <<"A", "n", "a">>, user_email |-> <<"a", "@", "x">>],
      [course_title |-> <<"G", "o">>, user_name |-> <<"B", "o">>, user_email |-> <<"b", "@", "x">>],
      [course_title |-> <<"S", "Q", "L">>, user_name |-> <<"A", "n", "a">>, user_email |-> <<"a", "@", "x">>] }

\* one call of index.book_course(request_body) when the clock reads now
book_course ==
    /\ Len(bookings) < MaxBookings
    /\ \E request_body \in BookingRequests, now \in BookingClocks :
         bookings' = Append(bookings, [request |-> request_body, now |-> now,
                                       result |-> BookCourse(request_body, now)])
    /\ UNCHANGED <<retryVars, handlerVars, searchVars, forwarderVars, updaterVars>>

InitBooking ==
    /\ RetryIdle /\ HandlerIdle /\ SearchIdle /\ ForwarderIdle /\ UpdaterIdle
    /\ bookings = <<>>
SpecBooking == InitBooking /\ [][book_course]_vars

\* a dependency the invocation does not reach does nothing
Unused == <<Ok(<<>>)>>
QuietEnv ==
    [init |-> "ok", subject |-> Unused, level |-> Unused, duration |-> Unused,
     price_range |-> Unused, retrieval |-> EnvAllOk, now |-> Clock(2026, 1, 1, 0, 0, 0)]

\* what the dependencies may do during an invocation with event ev
Environs(ev) ==
    LET f == IF IsDictOrList(ev) THEN Get(ev, "function", "searchCourses") ELSE "-" IN
    IF ~IsDictOrList(ev) THEN {QuietEnv}
    ELSE {[QuietEnv EXCEPT !.init = "raise"]} \cup
      (CASE f = "searchCourses" ->
              { [QuietEnv EXCEPT !.subject = a, !.level = b, !.duration = c,
                                 !.price_range = d, !.retrieval = r] :
                  a \in SubjectScripts, b \in LevelScripts, c \in DurationScripts,
                  d \in PriceScripts, r \in RetrievalEnvs }
         [] f = "getCourseDetails" -> { [QuietEnv EXCEPT !.retrieval = r] : r \in RetrievalEnvs }
         [] f = "bookCourse" -> { [QuietEnv EXCEPT !.now = n] : n \in Nows }
         [] OTHER -> {QuietEnv})

\* one invocation of lambda_handler(event, context)
lambda_handler ==
    /\ event = NoEvent
    /\ \E ev \in Events :
         \E env \in Environs(ev) :
            /\ event' = ev
            /\ environ' = env
            /\ response' = LambdaHandler(ev, index, env)
    /\ UNCHANGED <<retryVars, searchVars, forwarderVars, bookingVars, updaterVars>>

InitDispatch ==
    RetryIdle /\ HandlerIdle /\ ForwarderIdle /\ OthersIdle
      /\ index \in Indexes /\ first = NoCall /\ second = NoCall
SpecDispatch == InitDispatch /\ [][lambda_handler]_vars

\* ------------------------------------------- whatsapp_forwarder: texts, JSON
\* A str is the sequence of its tokens: words, JSON punctuation, JSON string
\* literals and white space. "" is the empty sequence.
Tok(t, v) == [t |-> t, v |-> v]
Word(v) == Tok("word", v)
Punct(v) == Tok("punct", v)
StrLit(v) == Tok("str", v)
Ws == Tok("ws", " ")
EmptyDict == <<>>
IsDict(d) == "py" \notin DOMAIN d
NotWs(tok) == tok.t # "ws"

\* What json.loads makes of a text: it raises, or gives a dict, or another value.
JsonRaises == [ok |-> FALSE, dict |-> FALSE, obj |-> EmptyDict]
JsonOther == [ok |-> TRUE, dict |-> FALSE, obj |-> EmptyDict]
JsonDict(obj) == [ok |-> TRUE, dict |-> TRUE, obj |-> obj]

\* the members of an object, "key": "value" separated by commas; a key given
\* twice keeps its last value
RECURSIVE JsonMembers(_, _)
JsonMembers(toks, acc) ==
    IF Len(toks) >= 3 /\ toks[1].t = "str" /\ toks[2] = Punct(":") /\ toks[3].t = "str"
      THEN LET obj == [k \in DOMAIN acc \cup {toks[1].v} |->
                          IF k = toks[1].v THEN toks[3].v ELSE acc[k]]
           IN IF Len(toks) = 3 THEN JsonDict(obj)
              ELSE IF toks[4] = Punct(",") /\ Len(toks) > 4
                     THEN JsonMembers(SubSeq(toks, 5, Len(toks)), obj)
                     ELSE JsonRaises
      ELSE JsonRaises

\* json.loads(text)
JsonLoads(text) ==
    LET toks == SelectSeq(text, NotWs) IN
    IF Len(toks) = 1 /\ toks[1].t = "str" THEN JsonOther
    ELSE IF toks = <<Punct("["), Punct("]")>> THEN JsonOther
    ELSE IF Len(toks) >= 2 /\ toks[1] = Punct("{") /\ toks[Len(toks)] = Punct("}")
      THEN IF Len(toks) = 2 THEN JsonDict(EmptyDict)
           ELSE JsonMembers(SubSeq(toks, 2, Len(toks) - 1), EmptyDict)
    ELSE JsonRaises

\* ------------------------------------ whatsapp_forwarder: process_message
\* mutant: the title of the reply without its "Button: " prefix
ButtonReplyText_Bare(interactive) ==
    Get(Get(interactive, "button_reply", EmptyDict), "title", <<>>)

\* f"Button: {interactive.get('button_reply', {}).get('title', '')}"
ButtonReplyText(interactive) ==
    <<Word("Button: ")>> \o Get(Get(interactive, "button_reply", EmptyDict), "title", <<>>)

\* f"List selection: {interactive.get('list_reply', {}).get('title', '')}"
ListReplyText(interactive) ==
    <<Word("List selection: ")>> \o Get(Get(interactive, "list_reply", EmptyDict), "title", <<>>)

\* f"[Received {message_type} message]"; a missing type prints as None
ReceivedText(message_type) == <<Word("[Received "), Word(message_type), Word(" message]")>>

\* message_text as the if/elif chain on message_type computes it; raised when a
\* .get() is applied to something that is not a dict
TextOf(text) == [raised |-> FALSE, text |-> text]
TextRaises == [raised |-> TRUE, text |-> <<>>]
MessageText(message) ==
    LET message_type == Get(message, "type", "None") IN
    IF message_type = "text"
      THEN LET text == Get(message, "text", EmptyDict) IN
           IF IsDict(text) THEN TextOf(Get(text, "body", <<>>)) ELSE TextRaises
    ELSE IF message_type = "button"
      THEN LET button == Get(message, "button", EmptyDict) IN
           IF IsDict(button) THEN TextOf(Get(button, "payload", <<>>)) ELSE TextRaises
    ELSE IF message_type = "interactive"
      THEN LET interactive == Get(message, "interactive", EmptyDict)
               interactive_type == Get(interactive, "type", "None")
           IN IF interactive_type = "button_reply" THEN TextOf(ButtonReplyText(interactive))
              ELSE IF interactive_type = "list_reply" THEN TextOf(ListReplyText(interactive))
              ELSE TextOf(<<>>)
    ELSE TextOf(ReceivedText(message_type))

\* An effect: a call of invoke_agent (to is the sessionId, text the inputText) or
\* of send_whatsapp_message (to is the recipient, text the body); ok is FALSE
\* when the call raised.
Effect(kind, to, text, ok) == [kind |-> kind, to |-> to, text |-> text, ok |-> ok]

NotConfiguredText ==
    <<Word("Sorry, the system is not properly configured. Please try again later.")>>
ApologyText ==
    <<Word("Sorry, I encountered an error processing your message. Please try again later.")>>
CarouselTemplate == <<Word("carousel_template")>>

\* send_whatsapp_reply(message_id, phone_number, text, metadata): its try/except
\* keeps a failure of the send to itself
SendWhatsappReply(phone_number, text, fate) ==
    <<Effect("send_text", <<Word("+")>> \o phone_number, text, fate.send = "ok")>>

\* send_carousel_template(message_id, phone_number, metadata), the same way
SendCarouselTemplate(phone_number, fate) ==
    <<Effect("send_carousel", <<Word("+")>> \o phone_number, CarouselTemplate, fate.send = "ok")>>

\* the loop over response.get("completion"): completion + chunk["bytes"].decode()
\* for every event with a chunk; decode() raises on bytes that are not UTF-8
RECURSIVE ReadStream(_, _)
ReadStream(stream, completion) ==
    IF stream = <<>> THEN [raised |-> FALSE, completion |-> completion]
    ELSE LET ev == Head(stream) IN
         IF "chunk" \in DOMAIN ev
           THEN IF ev.chunk.utf8
                  THEN ReadStream(Tail(stream), completion \o ev.chunk.bytes)
                  ELSE [raised |-> TRUE, completion |-> completion]
           ELSE ReadStream(Tail(stream), completion)

\* mutant: every custom response taken for a carousel
WantsCarousel_AnyCustom(completion) ==
    LET response_data == JsonLoads(completion) IN
    /\ response_data.ok
    /\ response_data.dict
    /\ Get(response_data.obj, "messageFormat", "None") = "custom"

\* the test that leads to send_carousel_template
WantsCarousel(completion) ==
    LET response_data == JsonLoads(completion) IN
    /\ response_data.ok
    /\ response_data.dict
    /\ Get(response_data.obj, "messageFormat", "None") = "custom"
    /\ Get(response_data.obj, "responseType", "None") = "carousel"

\* The try block of process_message: it ends (done) or throws; bound tells
\* whether message_id and phone_number were assigned before the exception.
Done(effs) == [threw |-> FALSE, bound |-> TRUE, effects |-> effs]
Thrown(bound, effs) == [threw |-> TRUE, bound |-> bound, effects |-> effs]
\* mutant: a failure of the send raised by the send function
SendRaises_Uncaught(fate) == fate.send # "ok"

\* the `except Exception` of send_whatsapp_reply and of send_carousel_template
\* logs the failure of the send: the function returns, nothing is raised
SendRaises(fate) == FALSE

\* the try block after a call of a send function
AfterSend(effs, fate) == IF SendRaises(fate) THEN Thrown(TRUE, effs) ELSE Done(effs)

TryProcessMessage(message, fate, configured) ==
    IF ~IsDict(message) THEN Thrown(FALSE, <<>>)
    ELSE
    LET phone_number == Get(message, "from", <<>>)
        mt == MessageText(message)
    IN
    IF phone_number = <<>> THEN Done(<<>>)
    ELSE IF mt.raised THEN Thrown(TRUE, <<>>)
    ELSE IF mt.text = <<>> THEN Done(<<>>)
    ELSE IF ~configured
      THEN AfterSend(SendWhatsappReply(phone_number, NotConfiguredText, fate), fate)
    ELSE
    LET invoke == <<Effect("invoke_agent", phone_number, mt.text, fate.agent = "ok")>> IN
    IF fate.agent # "ok" THEN Thrown(TRUE, invoke)
    ELSE LET read == ReadStream(fate.stream, <<>>) IN
         IF read.raised THEN Thrown(TRUE, invoke)
         ELSE IF WantsCarousel(read.completion)
           THEN AfterSend(invoke \o SendCarouselTemplate(phone_number, fate), fate)
           ELSE AfterSend(invoke \o SendWhatsappReply(phone_number, read.completion, fate),
                          fate)

\* mutant: the `except Exception` of process_message without its apology
ProcessMessage_Silent(message, fate, configured) ==
    TryProcessMessage(message, fate, configured).effects

\* process_message(message, metadata): the try block and its `except Exception`,
\* which sends the apology when the names it uses are bound
ProcessMessage(message, fate, configured) ==
    LET t == TryProcessMessage(message, fate, configured) IN
    IF t.threw
      THEN IF t.bound
             THEN t.effects \o SendWhatsappReply(Get(message, "from", <<>>), ApologyText, fate)
             ELSE t.effects
      ELSE t.effects

\* ------------------------------------- whatsapp_forwarder: lambda_handler
\* The messages of a record: json.loads of the SNS message and of its
\* whatsAppWebhookEntry, changes[0], value.messages when value has the key.
\* A JSON text is [valid_json |-> FALSE] or [valid_json |-> TRUE, value |-> v].
JsonText(v) == [valid_json |-> TRUE, value |-> v]
BadJson == [valid_json |-> FALSE]
RecordRaises == [raised |-> TRUE, messages |-> <<>>]
RecordGives(messages) == [raised |-> FALSE, messages |-> messages]
RecordMessages(record) ==
    IF ~IsDict(record) \/ "Sns" \notin DOMAIN record THEN RecordRaises
    ELSE IF ~record.Sns.Message.valid_json THEN RecordRaises
    ELSE
    LET sns_message == record.Sns.Message.value
        entry == Get(sns_message, "whatsAppWebhookEntry", JsonText(EmptyDict))
    IN
    IF ~entry.valid_json THEN RecordRaises
    ELSE
    LET webhook_entry == entry.value
        changes_list == Get(webhook_entry, "changes", <<EmptyDict>>)
    IN
    IF changes_list = <<>> THEN RecordRaises
    ELSE LET changes == changes_list[1]
             value == Get(changes, "value", EmptyDict)
         IN IF "messages" \in DOMAIN value
              THEN RecordGives(value.messages)
              ELSE RecordGives(<<>>)

\* the effects of a record, each with the record and the message it comes from
Stamp(effs, i, j) ==
    [n \in 1..Len(effs) |->
        [kind |-> effs[n].kind, to |-> effs[n].to, text |-> effs[n].text,
         ok |-> effs[n].ok, record |-> i, message |-> j]]

\* `for msg in value.get('messages', []): process_message(msg, metadata)`
RECURSIVE ProcessMessages(_, _, _, _, _)
ProcessMessages(messages, fates, j, i, configured) ==
    IF j > Len(messages) THEN <<>>
    ELSE Stamp(ProcessMessage(messages[j], fates[j], configured), i, j)
           \o ProcessMessages(messages, fates, j + 1, i, configured)

\* the body of the `for record` loop: the inner try and its `except Exception`
HandleRecord(item, i, configured) ==
    LET r == RecordMessages(item.record) IN
    IF r.raised
      THEN [raised |-> TRUE, effects |-> <<>>]
      ELSE [raised |-> FALSE,
            effects |-> ProcessMessages(r.messages, item.fates, 1, i, configured)]

\* mutant: a record that fails ends the loop
AfterRecord_Abort(raised, c, n) == IF raised THEN n + 1 ELSE c + 1

\* the inner except logs the failure and the loop goes on with the next record
AfterRecord(raised, c, n) == c + 1

\* one turn of the `for record in event.get('Records', [])` loop
forward_record ==
    /\ outcome.state = "running"
    /\ inbox.iterable
    /\ cursor <= Len(inbox.items)
    /\ LET h == HandleRecord(inbox.items[cursor], cursor, inbox.configured) IN
        /\ effects' = effects \o h.effects
        /\ cursor' = AfterRecord(h.raised, cursor, Len(inbox.items))
    /\ UNCHANGED <<inbox, outcome>>
    /\ UNCHANGED <<retryVars, handlerVars, searchVars, bookingVars, updaterVars>>

\* the loop is over: return {'statusCode': 200, ...}
forward_return ==
    /\ outcome.state = "running"
    /\ inbox.iterable
    /\ cursor > Len(inbox.items)
    /\ outcome' = [state |-> "returned", statusCode |-> 200, raised |-> FALSE]
    /\ UNCHANGED <<inbox, cursor, effects>>
    /\ UNCHANGED <<retryVars, handlerVars, searchVars, bookingVars, updaterVars>>

\* event['Records'] cannot be iterated: the outer except returns statusCode 500
forward_fail ==
    /\ outcome.state = "running"
    /\ ~inbox.iterable
    /\ outcome' = [state |-> "returned", statusCode |-> 500, raised |-> FALSE]
    /\ UNCHANGED <<inbox, cursor, effects>>
    /\ UNCHANGED <<retryVars, handlerVars, searchVars, bookingVars, updaterVars>>

ForwarderNext == forward_record \/ forward_return \/ forward_fail

\* ------------------------------------ whatsapp_forwarder: the events explored
Hello == <<Word("hello")>>
Blank == <<Ws>>
Phone == <<Word("4915")>>
TextMessage(body) == [id |-> "wamid.1", from |-> Phone, type |-> "text", text |-> [body |-> body]]
Messages ==
    { TextMessage(Hello), TextMessage(Blank), TextMessage(<<>>),
      [id |-> "wamid.1", from |-> Phone, type |-> "text"],
      [id |-> "wamid.1", from |-> Phone, type |-> "text", text |-> [py |-> "None"]],
      [id |-> "wamid.1", from |-> Phone, type |-> "text", text |-> [body |-> Hello],
       button |-> [payload |-> <<Word("yes")>>]],
      [id |-> "wamid.1", from |-> Phone, type |-> "button", button |-> [payload |-> <<Word("yes")>>]],
      [id |-> "wamid.1", from |-> Phone, type |-> "button"],
      [id |-> "wamid.1", from |-> Phone, type |-> "interactive",
       interactive |-> [type |-> "button_reply", button_reply |-> [title |-> <<Word("Enrol")>>]]],
      [id |-> "wamid.1", from |-> Phone, type |-> "interactive",
       interactive |-> [type |-> "button_reply", button_reply |-> [id |-> "b1"]]],
      [id |-> "wamid.1", from |-> Phone, type |-> "interactive",
       interactive |-> [type |-> "list_reply", list_reply |-> [title |-> <<Word("Python")>>]]],
      [id |-> "wamid.1", from |-> Phone, type |-> "interactive",
       interactive |-> [type |-> "list_reply", list_reply |-> [id |-> "r1"]]],
      [id |-> "wamid.1", from |-> Phone, type |-> "interactive",
       interactive |-> [type |-> "nfm_reply"]],
      [id |-> "wamid.1", from |-> Phone, type |-> "button", button |-> [payload |-> <<>>]],
      [id |-> "wamid.1", from |-> Phone, type |-> "image"],
      [id |-> "wamid.1", from |-> Phone],
      [id |-> "wamid.1", type |-> "text", text |-> [body |-> Hello]],
      [id |-> "wamid.1", from |-> <<>>, type |-> "text", text |-> [body |-> Hello]],
      [py |-> "None"] }

\* what the agent answers
Pair(k, v) == <<StrLit(k), Punct(":"), StrLit(v)>>
Object(members) == <<Punct("{")>> \o members \o <<Punct("}")>>
Comma == <<Punct(",")>>
RawPlain == <<Word("Here"), Ws, Word("you"), Ws, Word("go")>>
RawCarousel ==
    Object(Pair("messageFormat", "custom") \o Comma \o Pair("responseType", "carousel"))
RawCarouselMessage ==
    Object(Pair("responseType", "carousel") \o Comma \o Pair("message", "Welcome")
             \o Comma \o Pair("messageFormat", "custom"))
RawCarouselPadded == <<Ws>> \o RawCarousel \o <<Ws>>
RawCustomText ==
    Object(Pair("messageFormat", "custom") \o Comma \o Pair("responseType", "text"))
RawCustomOnly == Object(Pair("messageFormat", "custom"))
RawCarouselOnly == Object(Pair("responseType", "carousel"))
RawCapital ==
    Object(Pair("messageFormat", "Custom") \o Comma \o Pair("responseType", "carousel"))
RawOverridden ==
    Object(Pair("messageFormat", "custom") \o Comma \o Pair("responseType", "carousel")
             \o Comma \o Pair("responseType", "text"))
RawList == <<Punct("["), Punct("]")>>
RawString == <<StrLit("carousel")>>
RawTruncated ==
    <<Punct("{")>> \o Pair("messageFormat", "custom") \o Comma \o Pair("responseType", "carousel")
RawTrailing == RawCarousel \o <<Ws, Word("Enjoy")>>
RawTexts ==
    { RawPlain, RawCarousel, RawCarouselMessage, RawCarouselPadded, RawCustomText,
      RawCustomOnly, RawCarouselOnly, RawCapital, RawOverridden, RawList, RawString,
      RawTruncated, RawTrailing, <<>> }

\* the completion stream: the text in one chunk, or cut in two with a trace event
Chunk(bytes) == [chunk |-> [bytes |-> bytes, utf8 |-> TRUE]]
BrokenChunk(bytes) == [chunk |-> [bytes |-> bytes, utf8 |-> FALSE]]
TraceEvent == [trace |-> "orchestration"]
Cut(raw) == Len(raw) \div 2
Streams ==
    { <<Chunk(raw)>> : raw \in RawTexts }
      \cup { <<Chunk(SubSeq(raw, 1, Cut(raw))), TraceEvent,
               Chunk(SubSeq(raw, Cut(raw) + 1, Len(raw)))>> : raw \in RawTexts }
      \cup { <<>>, <<Chunk(Hello), BrokenChunk(Hello)>> }

\* what the agent and the channel do for one message
Fate(agent, stream, send) == [agent |-> agent, stream |-> stream, send |-> send]
Fates ==
    { Fate("ok", st, sd) : st \in Streams, sd \in {"ok", "raise"} }
      \cup { Fate("raise", <<>>, sd) : sd \in {"ok", "raise"} }

\* an SNS record that carries the given messages
RecordOf(messages) ==
    [Sns |-> [Message |-> JsonText(
        [whatsAppWebhookEntry |-> JsonText([changes |-> <<[value |-> [messages |-> messages]]>>])])]]
Item(record, fates) == [record |-> record, fates |-> fates]
Inbox(items, configured) == [iterable |-> TRUE, configured |-> configured, items |-> items]
NoRecords == [iterable |-> FALSE, configured |-> TRUE, items |-> <<>>]
Running == [state |-> "running", statusCode |-> 0, raised |-> FALSE]

\* one record with one message: every message, every answer of the agent
ForwardInboxes ==
    { Inbox(<<Item(RecordOf(<<m>>), <<f>>)>>, c) :
        m \in Messages, f \in Fates, c \in BOOLEAN } \cup {NoRecords}

InitForward ==
    /\ RetryIdle /\ HandlerIdle /\ SearchIdle /\ OthersIdle
    /\ inbox \in ForwardInboxes
    /\ cursor = 1
    /\ effects = <<>>
    /\ outcome = Running
SpecForward == InitForward /\ [][ForwarderNext]_vars

\* batches of records: well-formed ones, and the ways a record can be malformed
Answers(raw) == Fate("ok", <<Chunk(raw)>>, "ok")
ItemPlain == Item(RecordOf(<<TextMessage(Hello)>>), <<Answers(RawPlain)>>)
ItemCarousel == Item(RecordOf(<<TextMessage(Hello)>>), <<Answers(RawCarousel)>>)
ItemAgentRaises == Item(RecordOf(<<TextMessage(Hello)>>), <<Fate("raise", <<>>, "ok")>>)
ItemSendRaises ==
    Item(RecordOf(<<TextMessage(Hello)>>), <<Fate("ok", <<Chunk(RawPlain)>>, "raise")>>)
ItemCarouselSendRaises ==
    Item(RecordOf(<<TextMessage(Hello)>>), <<Fate("ok", <<Chunk(RawCarousel)>>, "raise")>>)
ItemApologySendRaises ==
    Item(RecordOf(<<TextMessage(Hello)>>), <<Fate("raise", <<>>, "raise")>>)
ItemFirstSendRaises ==
    Item(RecordOf(<<TextMessage(Hello), TextMessage(Blank)>>),
         <<Fate("ok", <<Chunk(RawPlain)>>, "raise"), Answers(RawCustomText)>>)
ItemTwoMessages ==
    Item(RecordOf(<<[id |-> "wamid.1", from |-> Phone, type |-> "text", text |-> [py |-> "None"]],
                    TextMessage(Blank)>>),
         <<Answers(RawPlain), Answers(RawCustomText)>>)
ItemNoSns == Item([EventSource |-> "aws:sns"], <<>>)
ItemNotDict == Item([py |-> "None"], <<>>)
ItemBadJson == Item([Sns |-> [Message |-> BadJson]], <<>>)
ItemBadEntry ==
    Item([Sns |-> [Message |-> JsonText([whatsAppWebhookEntry |-> BadJson])]], <<>>)
ItemNoChanges ==
    Item([Sns |-> [Message |-> JsonText(
            [whatsAppWebhookEntry |-> JsonText([changes |-> <<>>])])]], <<>>)
ItemStatusOnly ==
    Item([Sns |-> [Message |-> JsonText(
            [whatsAppWebhookEntry |-> JsonText([changes |-> <<[value |-> [statuses |-> <<>>]]>>])])]],
         <<>>)
BatchItems ==
    { ItemPlain, ItemCarousel, ItemAgentRaises, ItemSendRaises, ItemTwoMessages,
      ItemCarouselSendRaises, ItemApologySendRaises, ItemFirstSendRaises,
      ItemNoSns, ItemNotDict, ItemBadJson, ItemBadEntry, ItemNoChanges, ItemStatusOnly }
Batches == UNION { [1..n -> BatchItems] : n \in 0..MaxRecords }

InitBatch ==
    /\ RetryIdle /\ HandlerIdle /\ SearchIdle /\ OthersIdle
    /\ inbox \in { Inbox(b, TRUE) : b \in Batches } \cup {NoRecords}
    /\ cursor = 1
    /\ effects = <<>>
    /\ outcome = Running
SpecBatch == InitBatch /\ [][ForwarderNext]_vars

\* ------------------------------------------------- update_lambda: index.py
\* an entry of the invocation's log: a call of a client, a sleep or a response
Did(ev, arg) == [ev |-> ev, arg |-> arg]
Send(status) == Did("send", status)

TokenPrefix == <<"$", "{", "T", "o", "k", "e", "n", "[">>
\* str.startswith
StartsWith(text, prefix) ==
    Len(text) >= Len(prefix) /\ SubSeq(text, 1, Len(prefix)) = prefix

\* handler's wait for the agent ids: the ids never change during the
\* invocation, so an unresolved token is slept on max_attempts = 10 times
TokenAttempts == 10
TokenSleeps(agent_id, agent_alias_id) ==
    IF StartsWith(agent_id, TokenPrefix) \/ StartsWith(agent_alias_id, TokenPrefix)
      THEN [n \in 1..TokenAttempts |-> Did("sleep", "token")]
      ELSE <<>>

\* update_lambda_environment up to its call of wait_for_lambda_update: api says
\* what the two client calls do
UpdateCalls(api) ==
    CASE api = "get raises" -> <<Did("get_function_configuration", "raise")>>
      [] api = "update raises" -> <<Did("get_function_configuration", "ok"),
                                    Did("update_function_configuration", "raise")>>
      [] OTHER -> <<Did("get_function_configuration", "ok"),
                    Did("update_function_configuration", "ok")>>
UpdateRaises(api) == api # "ok"

\* mutant: no return after the FAILED response for missing properties
AfterMissing_FallsThrough == <<Send("FAILED"), Send("SUCCESS")>>

\* handler's else branch: the FAILED response, then return
AfterMissing == <<Send("FAILED")>>

\* handler, from its first line to the call of wait_for_lambda_update or, when
\* that call is not reached, to its return
HandlerStart(ev, api) ==
    LET properties == Get(ev, "ResourceProperties", EmptyDict)
        function_name == Get(properties, "FunctionName", PyNone)
        agent_id == Get(properties, "AgentId", PyNone)
        agent_alias_id == Get(properties, "AgentAliasId", PyNone)
        request_type == ev.RequestType
    IN IF request_type = "Create" \/ request_type = "Update"
         THEN IF Truthy(function_name) /\ Truthy(agent_id) /\ Truthy(agent_alias_id)
                THEN LET did == TokenSleeps(agent_id, agent_alias_id) \o UpdateCalls(api) IN
                     IF UpdateRaises(api)
                       THEN [waits |-> FALSE, did |-> did \o <<Send("FAILED")>>]
                       ELSE [waits |-> TRUE, did |-> did]
                ELSE [waits |-> FALSE, did |-> AfterMissing]
         ELSE [waits |-> FALSE, did |-> <<Send("SUCCESS")>>]

\* LastUpdateStatus of the function: an update in progress ends either way
StatusNext(status) ==
    IF status = "InProgress" THEN {"InProgress", "Successful", "Failed"} ELSE {status}
\* what a poll may see: the status, a get_function that raises, or a
\* Configuration without LastUpdateStatus
PollReadings(status) == {status, "raise", "no status"}

\* the try body of one iteration of wait_for_lambda_update
TryPoll(reading) ==
    CASE reading = "raise" -> [kind |-> "raise", error |-> "get_function failed"]
      [] reading = "no status" -> [kind |-> "raise", error |-> "'LastUpdateStatus'"]
      [] reading = "Successful" -> [kind |-> "return", error |-> "-"]
      [] reading = "Failed" -> [kind |-> "raise", error |-> "Lambda update failed: reason"]
      [] OTHER -> [kind |-> "sleep", error |-> "-"]

\* one iteration: `except Exception` catches whatever the body raises, the
\* raise of the 'Failed' branch included, sleeps and lets the loop go on
PollStep(reading) ==
    LET body == TryPoll(reading) IN
    IF body.kind = "return"
      THEN [returned |-> TRUE, did |-> <<Did("poll", reading)>>]
      ELSE [returned |-> FALSE, did |-> <<Did("poll", reading), Did("sleep", "delay")>>]

\* handler(event, context) up to wait_for_lambda_update
handler_start ==
    /\ upc = "start"
    /\ LET h == HandlerStart(cfn_event.event, cfn_event.api) IN
         /\ ulog' = ulog \o h.did
         /\ upc' = IF h.waits THEN "polling" ELSE "done"
         /\ lambda_status' = IF h.waits THEN "InProgress" ELSE lambda_status
    /\ UNCHANGED <<cfn_event, max_attempts, attempt, waited>>
    /\ UNCHANGED <<retryVars, handlerVars, searchVars, forwarderVars, bookingVars>>

\* one iteration of the loop of wait_for_lambda_update; when it returns True
\* the handler sends SUCCESS and returns
wait_poll ==
    /\ upc = "polling" /\ attempt < max_attempts
    /\ \E status \in StatusNext(lambda_status) : \E reading \in PollReadings(status) :
         LET step == PollStep(reading) IN
         /\ lambda_status' = status
         /\ attempt' = attempt + 1
         /\ IF step.returned
              THEN /\ waited' = "True"
                   /\ ulog' = ulog \o step.did \o <<Send("SUCCESS")>>
                   /\ upc' = "done"
              ELSE /\ waited' = waited
                   /\ ulog' = ulog \o step.did
                   /\ upc' = upc
    /\ UNCHANGED <<cfn_event, max_attempts>>
    /\ UNCHANGED <<retryVars, handlerVars, searchVars, forwarderVars, bookingVars>>

\* the loop is exhausted: wait_for_lambda_update raises the timeout error,
\* update_lambda_environment raises it again, the handler sends FAILED
wait_timeout ==
    /\ upc = "polling" /\ attempt = max_attempts
    /\ waited' = "Timed out waiting for Lambda update to complete"
    /\ ulog' = ulog \o <<Send("FAILED")>>
    /\ upc' = "done"
    /\ UNCHANGED <<cfn_event, lambda_status, max_attempts, attempt>>
    /\ UNCHANGED <<retryVars, handlerVars, searchVars, forwarderVars, bookingVars>>

UpdaterNext == handler_start \/ wait_poll \/ wait_timeout

\* ------------------------------------------- update_lambda: the events explored
Chars(n) == <<"i", "d", n>>
ResolvedProperties ==
    [FunctionName |-> <<"f", "w", "d">>, AgentId |-> Chars("1"), AgentAliasId |-> Chars("2")]
PropertySets ==
    { ResolvedProperties,
      [ResolvedProperties EXCEPT !.AgentAliasId = TokenPrefix \o <<"7", "]", "}">>],
      [ResolvedProperties EXCEPT !.AgentId = <<>>],
      [AgentId |-> Chars("1"), AgentAliasId |-> Chars("2")],
      [FunctionName |-> <<"f", "w", "d">>, AgentAliasId |-> Chars("2")],
      [FunctionName |-> <<"f", "w", "d">>, AgentId |-> Chars("1")] }
RequestTypes == {"Create", "Update", "Delete"}
CfnEvents ==
    { [RequestType |-> t, ResourceProperties |-> props] :
        t \in RequestTypes, props \in PropertySets }
Apis == {"ok", "get raises", "update raises"}

\* an invocation about to start; wait_for_lambda_update is explored with small
\* max_attempts in place of its default
InitUpdate ==
    /\ RetryIdle /\ HandlerIdle /\ SearchIdle /\ ForwarderIdle /\ BookingIdle
    /\ cfn_event \in { [event |-> ev, api |-> api] : ev \in CfnEvents, api \in Apis }
    /\ lambda_status = "Successful"
    /\ max_attempts \in 1..MaxAttemptsBound
    /\ attempt = 0 /\ upc = "start" /\ ulog = <<>> /\ waited = "-"
SpecUpdate == InitUpdate /\ [][UpdaterNext]_vars
\* the invocation is a sequential program: it takes its next step, and each
\* sleep returns
FairSpecUpdate == SpecUpdate /\ WF_vars(UpdaterNext)

\* ------------------------------------------------------------- specifications
InitRetry == RetryInit /\ HandlerIdle /\ SearchIdle /\ ForwarderIdle /\ OthersIdle
SpecRetry == InitRetry /\ [][RetryNext]_vars
\* func() returns or raises and time.sleep() returns: a run of the wrapper goes on
FairSpecRetry == SpecRetry /\ WF_vars(RetryNext)

\* ---------------------------------------------------- retry wrapper: claims
IsCall(x) == x.ev = "call"
IsSleep(x) == x.ev = "sleep"
Calls == SelectSeq(trace, IsCall)
Sleeps == SelectSeq(trace, IsSleep)
IsFatal(o) == o.kind = "error" /\ ~IsThrottling(o)
\* the first k calls of func all failed with an error the wrapper takes for throttling
AllThrottling(k) ==
    \A i \in 1..k : Calls[i].out.kind = "error" /\ IsThrottling(Calls[i].out)
Terminated == pc \in {"returned", "raised"}

C1_Safety ==
    LET n == Len(Calls) IN
    /\ (n <= max_retries /\ AllThrottling(n)) => pc \in {"call", "backoff"}
    /\ (n >= 1 /\ n - 1 <= max_retries /\ Calls[n].out.kind = "ok" /\ AllThrottling(n - 1))
         => /\ pc = "returned"
            /\ result = Calls[n].out
            /\ Len(Sleeps) = n - 1

\* C1: an operation that fails with n throttling errors in a row, n <= max_retries,
\* and then succeeds: the wrapper does not give up before the success, it
\* eventually stops, and it has then returned that success value after n+1 calls
\* and n sleeps.
C1_ReturnsAfterTransients == [](C1_Safety) /\ <>Terminated

C1_Witness ==
    /\ pc = "returned"
    /\ max_retries >= 2
    /\ Len(Calls) = max_retries + 1
    /\ Len(Sleeps) = max_retries

\* C2 as stated: after max_retries+1 throttled calls the wrapper raises an error
\* tagged ExhaustedRetries.
C2_TaggedExhaustedRetries ==
    LET n == Len(Calls) IN
    /\ n <= max_retries + 1
    /\ (n = max_retries + 1 /\ AllThrottling(n))
         => (pc = "raised" /\ result.cls = "ExhaustedRetries")

\* C2 (amended): the wrapper never calls func more than max_retries+1 times; after
\* max_retries+1 throttled calls (and max_retries sleeps) it re-raises the last
\* error itself, unchanged; the error it raises is a throttling one exactly when
\* the retries were exhausted.
C2_RaisesLastErrorUnchanged ==
    LET n == Len(Calls) IN
    /\ n <= max_retries + 1
    /\ (n = max_retries + 1 /\ AllThrottling(n))
         => /\ pc = "raised"
            /\ result = Calls[n].out
            /\ result.cls \in {"ClientError", "Exception"}
            /\ Len(Sleeps) = max_retries
    /\ (pc = "raised" /\ IsThrottling(result)) => (n = max_retries + 1 /\ AllThrottling(n))

C2_Witness ==
    /\ pc = "raised"
    /\ max_retries >= 1
    /\ Len(Calls) = max_retries + 1
    /\ AllThrottling(Len(Calls))

\* C3: a call of func that fails with an error the wrapper takes for fatal is the
\* last thing the wrapper does: no sleep and no call follows it, and that error is
\* what is raised; a fatal first call means one call and no sleep.
C3_FatalPropagatesImmediately ==
    /\ \A i \in 1..Len(trace) :
          (IsCall(trace[i]) /\ IsFatal(trace[i].out))
             => (i = Len(trace) /\ pc = "raised" /\ result = trace[i].out)
    /\ (Len(trace) >= 1 /\ IsFatal(trace[1].out)) => (Len(Calls) = 1 /\ Len(Sleeps) = 0)

C3_Witness ==
    /\ pc = "raised"
    /\ IsFatal(result)
    /\ Len(Calls) >= 2

\* ------------------------------------------------------- pagination: claims
TheCalls == {c \in {first, second} : c.called}
IsPage(r) == "courses" \in DOMAIN r

\* ceil(a / b) for a >= 0, b >= 1: the least q with q * b >= a
CeilDiv(a, b) == CHOOSE q \in 0..a : q * b >= a /\ \A r \in 0..(q - 1) : r * b < a

\* a wrapped call succeeds: an ok within max_retries+1 calls, throttling before it
DependencySucceeds(script) ==
    \E n \in 1..(DefaultMaxRetries + 1) :
        /\ ScriptAt(script, n).kind = "ok"
        /\ \A i \in 1..(n - 1) : IsThrottling(ScriptAt(script, i))
RetrievalSucceeds(env) ==
    env.init = "ok" /\ DependencySucceeds(env.embed) /\ DependencySucceeds(env.search)

\* the documents a request asks for: those that pass its level filter
Wanted(c) ==
    { n \in 1..Len(c.index) :
        ("level" \in DOMAIN c.request)
            => /\ "difficultyLevel" \in DOMAIN DocSource(c.index[n])
               /\ DocSource(c.index[n]).difficultyLevel = c.request.level }
Retrieved(c) == IF RetrievalSucceeds(c.env) THEN Min(Cardinality(Wanted(c)), DefaultK) ELSE 0

\* C8: for page_size >= 1 the call returns a page whose totalPages is
\* ceil(totalResults / page_size) and whose totalResults is the number of courses
\* retrieved.
C8_TotalPagesIsCeiling ==
    \A c \in TheCalls :
        c.request.page_size >= 1
          => /\ IsPage(c.result)
             /\ c.result.totalResults = Retrieved(c)
             /\ c.result.totalPages = CeilDiv(c.result.totalResults, c.request.page_size)

C8_Witness ==
    /\ first.called
    /\ first.request.page_size = 2
    /\ IsPage(first.result)
    /\ first.result.totalResults = 3
    /\ first.result.totalPages = 2

\* the whole ranked result list a call paginates
AllCourses(c) ==
    SemanticSearchCourses(c.request.subject,
        IF "level" \in DOMAIN c.request
          THEN <<[field |-> "difficultyLevel", value |-> c.request.level]>> ELSE <<>>,
        c.index, c.env)

\* C9: for page >= 1 and page_size >= 1 the items of the page are the results
\* (page-1)*page_size+1 .. page*page_size of the ranked list, as many as exist:
\* none, and no error, when the page lies beyond the last; never more than page_size.
C9_PageIsSlice ==
    \A c \in TheCalls :
        (c.request.page >= 1 /\ c.request.page_size >= 1)
          => LET all == AllCourses(c)
                 off == (c.request.page - 1) * c.request.page_size
                 items == c.result.courses
             IN /\ IsPage(c.result)
                /\ Len(items) = Max(0, Min(c.request.page_size, Len(all) - off))
                /\ \A j \in 1..Len(items) : items[j] = all[off + j]
                /\ Len(items) <= c.request.page_size
                /\ (c.request.page > c.result.totalPages) => items = <<>>

C9_Witness ==
    /\ first.called /\ second.called
    /\ IsPage(first.result) /\ IsPage(second.result)
    /\ first.request.page = 2 /\ Len(first.result.courses) = 1
    /\ first.result.totalResults = 3
    /\ second.request.page > second.result.totalPages
    /\ second.result.totalResults >= 1
    /\ second.result.courses = <<>>

Invoked == event # NoEvent
EventIsDict == "py" \notin DOMAIN event
Body == response.envelope.response.functionResponse.responseBody.TEXT.body
Payload == Body.of
FunctionOf(ev) == IF "function" \in DOMAIN ev THEN ev.function ELSE "searchCourses"
\* the event names function f and its parameters list holds a usable entry for name
Calls_(f) == Invoked /\ EventIsDict /\ "function" \in DOMAIN event /\ event.function = f
Supplies(name) ==
    /\ "parameters" \in DOMAIN event
    /\ event.parameters.list
    /\ \E i \in 1..Len(event.parameters.items) :
          LET item == event.parameters.items[i] IN
          "py" \notin DOMAIN item /\ "name" \in DOMAIN item /\ "value" \in DOMAIN item
            /\ item.name = name
IsErrorPayload(p) == DOMAIN p = {"error"}

WellFormedEnvelope(e) ==
    /\ DOMAIN e = {"messageVersion", "response", "sessionAttributes", "promptSessionAttributes"}
    /\ e.messageVersion = "1.0"
    /\ e.sessionAttributes = {}
    /\ e.promptSessionAttributes = {}
    /\ DOMAIN e.response = {"actionGroup", "function", "functionResponse"}
    /\ DOMAIN e.response.functionResponse = {"responseBody"}
    /\ DOMAIN e.response.functionResponse.responseBody = {"TEXT"}
    /\ DOMAIN e.response.functionResponse.responseBody.TEXT = {"body"}
    /\ e.response.functionResponse.responseBody.TEXT.body.type = "str"

\* C4: whatever the event and whatever the dependencies do, the handler does not
\* raise and returns the envelope with a string body; when the index client cannot
\* be built, or the event is no dict, the body is the encoded {error} payload.
C4_AlwaysEnvelope ==
    Invoked =>
        /\ ~response.raised
        /\ WellFormedEnvelope(response.envelope)
        /\ (~EventIsDict \/ environ.init = "raise")
              => (Body.encoding = "json" /\ IsErrorPayload(Payload))

C4_Witness ==
    /\ Invoked /\ EventIsDict
    /\ FunctionOf(event) = "searchCourses"
    /\ environ.init = "raise"
    /\ ~response.raised
    /\ IsErrorPayload(Payload)

IsDigit(c) == c \in {"0", "1", "2", "3", "4", "5", "6", "7", "8", "9"}
\* BK-\d{14}
IsBookingId(v) ==
    /\ Len(v) = 17
    /\ SubSeq(v, 1, 3) = <<"B", "K", "-">>
    /\ \A i \in 4..17 : IsDigit(v[i])
SuppliesBooking ==
    Supplies("course_title") /\ Supplies("user_name") /\ Supplies("user_email")

\* C5 as stated: a bookCourse invocation with the three fields always returns
\* status CONFIRMED, success true and a field bookingId of the form BK-\d{14}.
C5_BookingIdField ==
    (Calls_("bookCourse") /\ SuppliesBooking)
      => /\ "status" \in DOMAIN Payload /\ Payload.status = "CONFIRMED"
         /\ "success" \in DOMAIN Payload /\ Payload.success = TRUE
         /\ "bookingId" \in DOMAIN Payload /\ IsBookingId(Payload.bookingId)

\* C5 (amended): a bookCourse invocation with the three fields returns, when the
\* index client is built, status CONFIRMED, success true and a field booking_id
\* (there is no field bookingId) of the form BK-\d{14}, the digits being the clock
\* reading; when building the index client raises, it returns the {error} payload.
C5_BookingConfirmed ==
    (Calls_("bookCourse") /\ SuppliesBooking)
      => IF environ.init = "ok"
           THEN /\ "status" \in DOMAIN Payload /\ Payload.status = "CONFIRMED"
                /\ "success" \in DOMAIN Payload /\ Payload.success = TRUE
                /\ "bookingId" \notin DOMAIN Payload
                /\ "booking_id" \in DOMAIN Payload /\ IsBookingId(Payload.booking_id)
           ELSE IsErrorPayload(Payload)

C5_Witness ==
    /\ Calls_("bookCourse") /\ SuppliesBooking
    /\ environ.init = "ok"
    /\ environ.now.month = 1
    /\ "booking_id" \in DOMAIN Payload
    /\ Payload.booking_id =
         <<"B", "K", "-", "2", "0", "2", "6", "0", "1", "0", "1", "0", "0", "0", "0", "0", "0">>

\* the raw text of a search: the text parameter if there is one, else inputText
RawQuery ==
    LET ps == Parameters(event) IN
    IF "text" \in DOMAIN ps THEN ps.text
    ELSE IF "inputText" \in DOMAIN event THEN event.inputText ELSE <<>>
\* the extraction call raised after retries, or answered with no text
ExtractionYieldsNothing ==
    \/ ~DependencySucceeds(environ.subject)
    \/ \A c \in 1..Len(RetryWithBackoff(environ.subject).value) :
          IsSpace(RetryWithBackoff(environ.subject).value[c])
\* t is the first whitespace-delimited token of text
IsFirstToken(t, text) ==
    /\ t # <<>>
    /\ \A c \in 1..Len(t) : ~IsSpace(t[c])
    /\ \E a \in 0..(Len(text) - Len(t)) :
          /\ \A c \in 1..a : IsSpace(text[c])
          /\ SubSeq(text, a + 1, a + Len(t)) = t
          /\ (a + Len(t) = Len(text) \/ IsSpace(text[a + Len(t) + 1]))
HasToken(text) == \E c \in 1..Len(text) : ~IsSpace(text[c])

\* C6: the subject handed to the search is never empty; when the extraction
\* raises or answers with no text, it is the first token of the raw input (if
\* the raw input has one); the dispatcher returns an envelope.
C6_SubjectNeverEmpty ==
    (Invoked /\ response.searched # <<>>)
      => /\ response.searched[1].subject # <<>>
         /\ (ExtractionYieldsNothing /\ HasToken(RawQuery))
              => IsFirstToken(response.searched[1].subject, RawQuery)
         /\ ~response.raised /\ WellFormedEnvelope(response.envelope)

\* C7 as stated: every detectGreeting invocation returns the carousel payload,
\* whatever the input and whatever the dependencies do.
C7_GreetingAlways ==
    Calls_("detectGreeting")
      => /\ "messageFormat" \in DOMAIN Payload /\ Payload.messageFormat = "custom"
         /\ "responseType" \in DOMAIN Payload /\ Payload.responseType = "carousel"

\* C7 (amended): a detectGreeting invocation returns the same payload, with
\* messageFormat "custom" and responseType "carousel", for every inputText and
\* parameters list, provided the index client is built; when building it raises,
\* the invocation returns the {error} payload instead.
C7_GreetingWhenInitOk ==
    Calls_("detectGreeting")
      => IF environ.init = "ok"
           THEN /\ DOMAIN Payload = {"messageFormat", "responseType", "message"}
                /\ Payload.messageFormat = "custom"
                /\ Payload.responseType = "carousel"
                /\ "template" \in DOMAIN Payload.message
                /\ DOMAIN Payload.message = {"template"}
                /\ response.did = {"init_opensearch", "handle_greeting"}
           ELSE IsErrorPayload(Payload)

C7_Witness ==
    /\ Calls_("detectGreeting")
    /\ environ.init = "ok"
    /\ "inputText" \in DOMAIN event /\ event.inputText = TextPyCourse
    /\ Supplies("text")
    /\ "responseType" \in DOMAIN Payload /\ Payload.responseType = "carousel"

\* the event reaches the searchCourses branch: it names it or names no function
CallsSearch == Invoked /\ EventIsDict /\ FunctionOf(event) = "searchCourses"
IsResultPage(p) == DOMAIN p = {"courses", "totalResults", "currentPage", "totalPages"}

\* C11 as stated: when the retrieval dependency is unavailable (the embedding or
\* the index query fails, exhausted retries included), a searchCourses invocation
\* returns the failure payload {error: message} and never a result page.
C11_RetrievalFailureIsError ==
    (CallsSearch /\ environ.init = "ok" /\ ~RetrievalSucceeds(environ.retrieval))
      => IsErrorPayload(Payload) /\ ~IsResultPage(Payload)

\* the title a getCourseDetails event supplies, empty when it supplies none
SuppliedTitle == Get(Parameters(event), "course_title", <<>>)
IsFailurePayload(p) == DOMAIN p = {"success", "message"} /\ p.success = FALSE
\* course c is the hit of a document of the index that no document outranks
IsTopHit(c, query_text) ==
    LET vec == Embedding(query_text) IN
    \E n \in 1..Len(index) :
        /\ c = FormatHit(Hit(vec, index[n]))
        /\ \A m \in 1..Len(index) : Score(vec, index[m]) <= Score(vec, index[n])

\* C12: the getCourseDetails branch, with a non-empty course_title, makes one
\* retrieval with the title as query text and no filters, and returns
\* {course: top-ranked hit, success: true} exactly when the retrieval yields a
\* hit and {success: false, message} when it yields none; with a missing or
\* empty course_title it returns {success: false, message} without a retrieval.
C12_CourseDetailsOutcomes ==
    (Calls_("getCourseDetails") /\ environ.init = "ok")
      => IF SuppliedTitle = <<>>
           THEN response.retrieved = <<>> /\ IsFailurePayload(Payload)
           ELSE /\ response.retrieved = <<[query_text |-> SuppliedTitle, filters |-> <<>>]>>
                /\ IF RetrievalSucceeds(environ.retrieval) /\ Len(index) > 0
                     THEN /\ DOMAIN Payload = {"course", "success"}
                          /\ Payload.success = TRUE
                          /\ IsTopHit(Payload.course, SuppliedTitle)
                     ELSE IsFailurePayload(Payload)

C12_Witness ==
    /\ Calls_("getCourseDetails")
    /\ environ.init = "ok"
    /\ SuppliedTitle = TextAws
    /\ Len(index) >= 2
    /\ "course" \in DOMAIN Payload /\ Payload.course.courseId = 101

\* C13 as stated: a bookCourse invocation that lacks course_title, user_name or
\* user_email never returns a record with status CONFIRMED, and returns the
\* failure payload {success: false, message} when the index client is built.
C13_BookingValidated ==
    (Calls_("bookCourse") /\ ~SuppliesBooking)
      => /\ ~("status" \in DOMAIN Payload /\ Payload.status = "CONFIRMED")
         /\ environ.init = "ok"
              => /\ "success" \in DOMAIN Payload /\ Payload.success = FALSE
                 /\ "message" \in DOMAIN Payload

KnownFunctions == {"searchCourses", "getCourseDetails", "detectGreeting", "bookCourse"}
CallsUnknown ==
    Invoked /\ EventIsDict /\ "function" \in DOMAIN event /\ event.function \notin KnownFunctions
BranchSteps ==
    {"extract_subject", "extract_parameter", "search_courses", "get_course_details",
     "handle_greeting", "book_course"}
NamesUnsupported(p, name) ==
    /\ IsErrorPayload(p)
    /\ p.error = [template |-> "Unsupported function: {}", name |-> name]

\* C14 as stated: for every function name other than the four, the invocation
\* returns the payload {error: "Unsupported function: <name>"} with the name
\* received, and makes no extraction, search, lookup or booking.
C14_UnsupportedAlways ==
    CallsUnknown
      => /\ NamesUnsupported(Payload, event.function)
         /\ response.did \cap BranchSteps = {}
         /\ response.searched = <<>> /\ response.retrieved = <<>>

\* C14 (amended): for every function name other than the four, the invocation
\* makes no extraction, search, lookup or booking, and returns the payload
\* {error: "Unsupported function: <name>"} with the name received, provided the
\* index client is built; when building it raises, the payload is {error: the
\* text of that exception} instead.
C14_UnsupportedWhenInitOk ==
    CallsUnknown
      => /\ response.did \cap BranchSteps = {}
         /\ response.searched = <<>> /\ response.retrieved = <<>>
         /\ IF environ.init = "ok"
              THEN NamesUnsupported(Payload, event.function)
              ELSE Payload = [error |-> StrOfError(InitError)]

C14_Witness ==
    /\ CallsUnknown
    /\ event.function = "SearchCourses"
    /\ environ.init = "ok"
    /\ Supplies("text")
    /\ NamesUnsupported(Payload, "SearchCourses")

\* the throttle signature of the wrapper's contract: a throttle code, or one of
\* the three phrases in the lower-cased message, whatever the class of the error
ThrottlePhrases == {PhraseThrottling, PhraseTooManyRequests, PhraseRateTooHigh}
HasThrottleSignature(o) ==
    \/ o.cls = "ClientError" /\ o.code \in ThrottleCodes
    \/ \E ph \in ThrottlePhrases : Contains(Lower(o.msg), ph)
\* the k-th call failed and the wrapper raised its error at once
RaisedAt(k) == k = Len(Calls) /\ IsCall(trace[Len(trace)]) /\ pc = "raised"

\* C18 as stated: with retries left, the wrapper retries a failure if and only if
\* its code is a throttle code or its message contains, whatever the case,
\* "throttling", "too many requests" or "request rate is too high", for service
\* client errors and every other exception alike; it raises every other failure.
C18_UniformClassification ==
    \A k \in 1..Len(Calls) :
        (Calls[k].out.kind = "error" /\ k - 1 < max_retries)
          => (HasThrottleSignature(Calls[k].out) <=> ~RaisedAt(k))

\* the base backoff of the i-th retry: b_1 = initial_backoff, b_(i+1) = min(2 b_i, max_backoff)
RECURSIVE ScheduledBackoff(_)
ScheduledBackoff(i) ==
    IF i = 1 THEN initial_backoff ELSE Min(2 * ScheduledBackoff(i - 1), max_backoff)

\* C19: the wait before the i-th retry (i = 1..max_retries) is
\* min(b_i + j, max_backoff) with a jitter j of [0, 1], b_1 = initial_backoff and
\* b_(i+1) = min(2 b_i, max_backoff); no wait exceeds max_backoff; and when
\* initial_backoff <= max_backoff, backoff <= max_backoff in every state and the
\* base backoff never decreases from one retry to the next.
C19_BackoffSchedule ==
    /\ Len(Sleeps) <= max_retries
    /\ retries = Len(Sleeps)
    /\ \A i \in 1..Len(Sleeps) :
          /\ \E j \in 0..1 : Sleeps[i].t = Min(ScheduledBackoff(i) + j, max_backoff)
          /\ Sleeps[i].t <= max_backoff
    /\ pc # "idle" => backoff = ScheduledBackoff(retries + 1)
    /\ (pc # "idle" /\ initial_backoff <= max_backoff)
          => /\ backoff <= max_backoff
             /\ \A i \in 1..retries : ScheduledBackoff(i) <= ScheduledBackoff(i + 1)

C19_Witness ==
    /\ initial_backoff = 1 /\ max_backoff = 3
    /\ Len(Sleeps) = 2
    /\ Sleeps[1].t = 2 /\ Sleeps[2].t = 3
    /\ backoff = 3

EndsWithSleep == trace # <<>> /\ IsSleep(trace[Len(trace)])
EndsWithCall == trace # <<>> /\ IsCall(trace[Len(trace)])
\* calls of func and sleeps alternate, a call first, and a finished run ends with a call
C20_Alternation ==
    /\ \A i \in 1..Len(trace) :
          IF i % 2 = 1 THEN IsCall(trace[i]) ELSE IsSleep(trace[i])
    /\ Terminated => EndsWithCall
    /\ EndsWithSleep => pc = "call"

\* C20: the first attempt is made with no sleep before it; between two consecutive
\* attempts there is exactly one sleep; every sleep is followed by another
\* attempt, so that no sleep comes after the final attempt, whether that attempt
\* returns, raises a fatal error or exhausts the retries.
C20_AttemptsAndWaitsInOrder ==
    [](C20_Alternation) /\ (EndsWithSleep ~> EndsWithCall)

C20_Witness ==
    /\ pc = "raised"
    /\ max_retries = 2
    /\ Len(trace) = 5
    /\ IsThrottling(trace[5].out)

\* ------------------------------------------------------- forwarder: claims
\* the message of an event with one record and one message, and what answers it
OneMessage ==
    inbox.iterable /\ Len(inbox.items) = 1 /\ Len(inbox.items[1].fates) = 1
TheMessage ==
    inbox.items[1].record.Sns.Message.value.whatsAppWebhookEntry.value.changes[1].value.messages[1]
TheFate == inbox.items[1].fates[1]
HasSender(m) == IsDict(m) /\ "from" \in DOMAIN m /\ m.from # <<>>
Invocations == SelectSeq(effects, LAMBDA e : e.kind = "invoke_agent")
Sends == SelectSeq(effects, LAMBDA e : e.kind # "invoke_agent")
TitleOf(reply) == IF "title" \in DOMAIN reply THEN reply.title ELSE <<>>
\* text is what the mapping of the inbound normalizer gives for message m
MapsTo(m, text) ==
    LET subtype == IF "type" \in DOMAIN m THEN m.type ELSE "None" IN
    CASE subtype = "text" -> "text" \in DOMAIN m /\ text = m.text.body
      [] subtype = "button" -> "button" \in DOMAIN m /\ text = m.button.payload
      [] subtype = "interactive" ->
            /\ "interactive" \in DOMAIN m
            /\ \/ /\ m.interactive.type = "button_reply"
                  /\ text = <<Word("Button: ")>> \o TitleOf(m.interactive.button_reply)
               \/ /\ m.interactive.type = "list_reply"
                  /\ text = <<Word("List selection: ")>> \o TitleOf(m.interactive.list_reply)
      [] OTHER -> text = <<Word("[Received "), Word(subtype), Word(" message]")>>

\* C15: for a message with a sender, the text forwarded to the agent is text.body
\* for the subtype text, button.payload for button, "Button: " + the title of the
\* button reply or "List selection: " + the title of the list reply for
\* interactive, and "[Received <type> message]" for any other subtype; the
\* session of the invocation is the sender.
C15_TextMapping ==
    (OneMessage /\ cursor > 1)
      => \A n \in 1..Len(Invocations) :
            /\ HasSender(TheMessage)
            /\ Invocations[n].to = TheMessage.from
            /\ MapsTo(TheMessage, Invocations[n].text)

C15_Witness ==
    /\ OneMessage /\ cursor > 1
    /\ HasSender(TheMessage)
    /\ "type" \in DOMAIN TheMessage /\ TheMessage.type = "interactive"
    /\ Len(Invocations) = 1
    /\ Invocations[1].text = <<Word("Button: "), Word("Enrol")>>

\* the messages a record carries, none when it cannot be decoded
MessagesOf(item) == RecordMessages(item.record).messages
\* message m has a sender and a text: it is to be forwarded
Accepted(m) ==
    /\ HasSender(m)
    /\ ~MessageText(m).raised
    /\ MessageText(m).text # <<>>
StampedAt(e, i, j) == e.record = i /\ e.message = j
\* message j of record i was forwarded to the agent and then a reply was attempted
Served(i, j) ==
    \E a \in 1..Len(effects) : \E b \in (a + 1)..Len(effects) :
        /\ effects[a].kind = "invoke_agent" /\ StampedAt(effects[a], i, j)
        /\ effects[b].kind \in {"send_text", "send_carousel"} /\ StampedAt(effects[b], i, j)
EffectsOfRecord(i) == SelectSeq(effects, LAMBDA e : e.record = i)
\* the records the loop has gone past
Passed == IF outcome.state = "returned" THEN 1..Len(inbox.items) ELSE 1..(cursor - 1)

\* C16: the records of a batch are processed one after the other in batch order;
\* a record that is malformed or whose processing fails never keeps another
\* record from being processed (the agent invoked and a reply attempted for each
\* of its messages, exactly as if the record were alone); and the handler ends
\* without raising.
C16_BatchIsolation ==
    inbox.iterable
      => /\ \A a \in 1..Len(effects) : \A b \in a..Len(effects) :
               \/ effects[a].record < effects[b].record
               \/ /\ effects[a].record = effects[b].record
                  /\ effects[a].message <= effects[b].message
         /\ \A i \in Passed :
               /\ EffectsOfRecord(i) = HandleRecord(inbox.items[i], i, inbox.configured).effects
               /\ \A j \in 1..Len(MessagesOf(inbox.items[i])) :
                     Accepted(MessagesOf(inbox.items[i])[j]) => Served(i, j)
         /\ \A e \in 1..Len(effects) : effects[e].record \in Passed
         /\ outcome.state = "returned"
              => /\ ~outcome.raised /\ outcome.statusCode = 200
                 /\ cursor = Len(inbox.items) + 1

C16_Witness ==
    /\ inbox.iterable
    /\ outcome.state = "returned"
    /\ Len(inbox.items) = 3
    /\ inbox.items[1] = ItemBadJson
    /\ inbox.items[2] = ItemAgentRaises
    /\ inbox.items[3] = ItemPlain
    /\ Served(2, 1) /\ Served(3, 1)
    /\ Len(effects) = 4
    /\ effects[4].text = RawPlain

\* the chunks of the stream, in stream order, one after the other
RECURSIVE ChunksUpTo(_, _)
ChunksUpTo(stream, n) ==
    IF n = 0 THEN <<>>
    ELSE ChunksUpTo(stream, n - 1)
           \o (IF "chunk" \in DOMAIN stream[n] THEN stream[n].chunk.bytes ELSE <<>>)
RawText == ChunksUpTo(TheFate.stream, Len(TheFate.stream))
\* the agent answered and every chunk of its stream could be decoded
Answered ==
    /\ Len(Invocations) = 1 /\ Invocations[1].ok
    /\ \A n \in 1..Len(TheFate.stream) :
          "chunk" \in DOMAIN TheFate.stream[n] => TheFate.stream[n].chunk.utf8
\* text is a JSON object with messageFormat "custom" and responseType "carousel"
IsCarouselObject(text) ==
    LET parsed == JsonLoads(text) IN
    /\ parsed.ok /\ parsed.dict
    /\ "messageFormat" \in DOMAIN parsed.obj /\ parsed.obj.messageFormat = "custom"
    /\ "responseType" \in DOMAIN parsed.obj /\ parsed.obj.responseType = "carousel"

\* C17: once the chunks of the agent's stream are put together in stream order
\* into rawText, the carousel template is sent, and no text reply, if and only if
\* rawText parses as a JSON object with messageFormat "custom" and responseType
\* "carousel"; for every other rawText one text reply is sent, with rawText as
\* its body, unchanged.
C17_CarouselOrVerbatimText ==
    (OneMessage /\ cursor > 1 /\ Answered)
      => /\ Len(Sends) = 1
         /\ Sends[1].to = <<Word("+")>> \o TheMessage.from
         /\ IF IsCarouselObject(RawText)
              THEN Sends[1].kind = "send_carousel"
              ELSE Sends[1].kind = "send_text" /\ Sends[1].text = RawText

C17_Witness ==
    /\ OneMessage /\ cursor > 1 /\ Answered
    /\ Len(TheFate.stream) = 3
    /\ RawText = RawCarouselMessage
    /\ Len(Sends) = 1 /\ Sends[1].kind = "send_carousel"

\* message m yields no text: an empty or missing text.body or button.payload, an
\* interactive reply without a title, or an interactive type that is no reply
HasNoText(holder, key) ==
    IsDict(holder) /\ (key \notin DOMAIN holder \/ holder[key] = <<>>)
YieldsNoText(m) ==
    /\ "type" \in DOMAIN m
    /\ CASE m.type = "text" -> "text" \notin DOMAIN m \/ HasNoText(m.text, "body")
         [] m.type = "button" -> "button" \notin DOMAIN m \/ HasNoText(m.button, "payload")
         [] m.type = "interactive" ->
              \/ "interactive" \notin DOMAIN m
              \/ m.interactive.type \notin {"button_reply", "list_reply"}
              \/ /\ m.interactive.type = "button_reply"
                 /\ HasNoText(m.interactive.button_reply, "title")
              \/ /\ m.interactive.type = "list_reply"
                 /\ HasNoText(m.interactive.list_reply, "title")
         [] OTHER -> FALSE

\* C21 as stated: a message with no sender, or one that yields no text (empty
\* text.body, empty button.payload, an interactive reply without a title or an
\* interactive type that is neither button_reply nor list_reply), is dropped: no
\* agent invocation and no channel send is made for it.
C21_DroppedMessages ==
    (OneMessage /\ cursor > 1 /\ IsDict(TheMessage)
        /\ (~HasSender(TheMessage) \/ YieldsNoText(TheMessage)))
      => effects = <<>>

IsSend(e) == e.kind \in {"send_text", "send_carousel"}
\* nothing more is done for a message after effect a
LastOfItsMessage(a) ==
    \A b \in (a + 1)..Len(effects) :
        ~StampedAt(effects[b], effects[a].record, effects[a].message)
\* the accepted messages that come after message j of record i, among the
\* records the loop has gone past, were all forwarded and answered
LaterMessagesServed(i, j) ==
    \A i2 \in Passed :
        \A j2 \in 1..Len(MessagesOf(inbox.items[i2])) :
            (Accepted(MessagesOf(inbox.items[i2])[j2]) /\ (i2 > i \/ (i2 = i /\ j2 > j)))
              => Served(i2, j2)

\* C24: a failure of a channel send (the carousel template, a text reply, the
\* apology) is caught inside the send function: nothing more is done for that
\* message, no second send either, and neither the remaining messages of the
\* record nor the remaining records of the batch are kept from being processed;
\* the handler still returns normally.
C24_SendFailuresContained ==
    inbox.iterable
      => /\ \A a \in 1..Len(effects) :
               (IsSend(effects[a]) /\ ~effects[a].ok)
                 => /\ LastOfItsMessage(a)
                    /\ (effects[a].record \in Passed
                          => LaterMessagesServed(effects[a].record, effects[a].message))
         /\ outcome.state = "returned"
              => ~outcome.raised /\ outcome.statusCode = 200 /\ cursor = Len(inbox.items) + 1

C24_Witness ==
    /\ inbox.iterable
    /\ outcome.state = "returned"
    /\ Len(inbox.items) = 3
    /\ inbox.items[1] = ItemFirstSendRaises
    /\ inbox.items[2] = ItemApologySendRaises
    /\ inbox.items[3] = ItemCarouselSendRaises
    /\ Len(effects) = 8
    /\ ~effects[2].ok /\ effects[4].ok /\ ~effects[6].ok /\ ~effects[8].ok
    /\ effects[6].text = ApologyText /\ effects[8].kind = "send_carousel"

\* every chunk of the stream of the message can be decoded
StreamDecodes ==
    \A n \in 1..Len(TheFate.stream) :
        "chunk" \in DOMAIN TheFate.stream[n] => TheFate.stream[n].chunk.utf8

\* C26: for every message with a sender and a non-empty text, process_message
\* attempts exactly one channel send: the configuration-error text when the agent
\* ids are not configured (the agent is then not invoked), the carousel template
\* or the agent's text when the agent answers, the apology when the invocation or
\* the reading of the stream fails; never a carousel and a text, never nothing.
C26_ExactlyOneSend ==
    (OneMessage /\ cursor > 1 /\ Accepted(TheMessage))
      => /\ Len(Sends) = 1
         /\ Sends[1].to = <<Word("+")>> \o TheMessage.from
         /\ IF ~inbox.configured
              THEN /\ Invocations = <<>>
                   /\ Sends[1].kind = "send_text" /\ Sends[1].text = NotConfiguredText
              ELSE /\ Len(Invocations) = 1
                   /\ effects[1].kind = "invoke_agent"
                   /\ IF TheFate.agent # "ok" \/ ~StreamDecodes
                        THEN Sends[1].kind = "send_text" /\ Sends[1].text = ApologyText
                        ELSE IF IsCarouselObject(RawText)
                          THEN Sends[1].kind = "send_carousel"
                          ELSE Sends[1].kind = "send_text" /\ Sends[1].text = RawText

C26_Witness ==
    /\ OneMessage /\ cursor > 1 /\ Accepted(TheMessage)
    /\ inbox.configured
    /\ TheFate.agent = "ok" /\ ~StreamDecodes
    /\ Len(Sends) = 1 /\ Sends[1].text = ApologyText /\ ~Sends[1].ok

Criteria == {"level", "duration", "price_range"}
\* the value of a criterion when its extraction succeeds with a usable answer
Extracted(c) == ExtractParameter(RawQuery, environ[c])

\* C22: in searchCourses, level, duration and price_range are each extracted by
\* a call of their own through the retry wrapper; an extraction that fails (fatal
\* error or exhausted retries) leaves that criterion alone unset, the others
\* keep the values their own extractions give, the retrieval call is made and
\* the result is a page, not an error.
C22_CriteriaIndependent ==
    (CallsSearch /\ environ.init = "ok")
      => /\ Len(response.searched) = 1
         /\ \A c \in Criteria :
               /\ ~DependencySucceeds(environ[c]) => c \notin DOMAIN response.searched[1]
               /\ IF Truthy(Extracted(c))
                    THEN /\ c \in DOMAIN response.searched[1]
                         /\ response.searched[1][c] = Extracted(c)
                    ELSE c \notin DOMAIN response.searched[1]
         /\ Len(response.retrieved) = 1
         /\ response.retrieved[1].query_text = response.searched[1].subject
         /\ IsResultPage(Payload)

C22_Witness ==
    /\ CallsSearch /\ environ.init = "ok"
    /\ ~DependencySucceeds(environ.level)
    /\ ~DependencySucceeds(environ.price_range)
    /\ DOMAIN response.searched[1] = {"subject", "page", "page_size", "duration"}
    /\ IsResultPage(Payload) /\ Payload.totalResults = 3

\* the payload is a failure payload: {error: ...} or {success: false, message: ...}
FailureMessages(p) ==
    (IF IsErrorPayload(p) THEN {p.error} ELSE {})
      \cup (IF "success" \in DOMAIN p /\ p.success = FALSE /\ "message" \in DOMAIN p
              THEN {p.message} ELSE {})
\* the message is built from the text of an exception
CarriesExceptionText(msg) == "words" \in DOMAIN msg

\* C23 as stated: on every failure path (top-level error payload, getCourseDetails
\* failure, bookCourse failure) the message of the payload is a fixed string that
\* neither contains nor depends on the text of the internal exception.
C23_NoInternalDetail ==
    Invoked => \A msg \in FailureMessages(Payload) : ~CarriesExceptionText(msg)

NamesNoFunction == Invoked /\ EventIsDict /\ "function" \notin DOMAIN event
\* the same event, naming searchCourses
AsSearchCourses ==
    [k \in DOMAIN event \cup {"function"} |->
        IF k = "function" THEN "searchCourses" ELSE event[k]]

\* C28: an event without a function field is handled exactly as the same event
\* naming searchCourses, the query being the text parameter if there is one and
\* inputText otherwise; it never gets the unsupported-function payload, which
\* only an event naming a function outside the four known names gets.
C28_DefaultDispatch ==
    /\ NamesNoFunction
         => /\ response = LambdaHandler(AsSearchCourses, index, environ)
            /\ response.envelope.response.function = "searchCourses"
            /\ ~NamesUnsupported(Payload, "searchCourses")
            /\ environ.init = "ok"
                 => /\ "search_courses" \in response.did
                    /\ Len(response.searched) = 1
                    /\ response.searched[1].subject = ExtractSubject(RawQuery, environ.subject)
                    /\ IsResultPage(Payload)
    /\ (Invoked /\ EventIsDict)
         => ((\E name \in FunctionNames : NamesUnsupported(Payload, name)) => CallsUnknown)

C28_Witness ==
    /\ NamesNoFunction
    /\ environ.init = "ok"
    /\ Supplies("text")
    /\ "inputText" \in DOMAIN event /\ event.inputText # RawQuery
    /\ IsResultPage(Payload) /\ Payload.totalResults > 0

\* ------------------------------------------------------ result order: claims
\* the ranked hit list the index returns for the request of call c
RankedHits(c) ==
    KnnSearch(c.index, Embedding(c.request.subject),
              SearchCoursesCalls(c.request)[1].filters, DefaultK)
\* the number of hits before the requested slice
SliceOffset(c) == (c.request.page - 1) * c.request.page_size
\* the item is the course of that hit and carries that hit's score
IsItemOf(item, hit) ==
    /\ item.score = hit._score
    /\ item.title = hit._source.title
    /\ item.courseId = (IF "courseId" \in DOMAIN hit._source
                          THEN hit._source.courseId ELSE hit._id)
SliceSize(c) ==
    IF RetrievalSucceeds(c.env)
      THEN Max(0, Min(Len(RankedHits(c)) - SliceOffset(c), c.request.page_size))
      ELSE 0

\* C25: the items of a result page are, position by position, the hits of the
\* requested slice of the index's ranked list, none dropped, repeated or moved,
\* each with the score of its own hit; so the scores never increase down the
\* page and no course appears twice.
C25_OrderPreserved ==
    \A c \in TheCalls :
        IsPage(c.result) =>
            LET items == c.result.courses IN
            /\ Len(items) = SliceSize(c)
            /\ \A j \in 1..Len(items) : IsItemOf(items[j], RankedHits(c)[SliceOffset(c) + j])
            /\ \A j, k \in 1..Len(items) :
                   j < k => /\ items[j].score >= items[k].score
                            /\ items[j].courseId # items[k].courseId

\* one call returned two courses of different scores from the head of the
\* list, another a non-empty second page
C25_Witness ==
    /\ first.called /\ second.called
    /\ IsPage(first.result) /\ IsPage(second.result)
    /\ Len(first.result.courses) >= 2
    /\ first.result.courses[1].score > first.result.courses[2].score
    /\ second.request.page = 2 /\ Len(second.result.courses) >= 1

\* ------------------------------------------------------- booking ids: claims
\* two readings of the clock within the same second
SameSecond(a, b) ==
    /\ a.year = b.year /\ a.month = b.month /\ a.day = b.day
    /\ a.hour = b.hour /\ a.minute = b.minute /\ a.second = b.second

\* C27: two book_course calls return the same booking_id exactly when their
\* clock readings fall in the same second, whatever the course, the user and
\* the number of bookings made before; calls in different seconds get
\* different ids.
C27_SameIdIffSameSecond ==
    \A i, j \in DOMAIN bookings :
        (bookings[i].result.booking_id = bookings[j].result.booking_id)
            <=> SameSecond(bookings[i].now, bookings[j].now)

\* two bookings of different courses by different users, made at different
\* instants of one second, carry the same id
C27_Witness ==
    /\ Len(bookings) = 2
    /\ bookings[1].request.course_title # bookings[2].request.course_title
    /\ bookings[1].request.user_name # bookings[2].request.user_name
    /\ bookings[1].now # bookings[2].now
    /\ SameSecond(bookings[1].now, bookings[2].now)
    /\ bookings[1].result.booking_id = bookings[2].result.booking_id

\* ----------------------------------------------------- update_lambda: claims
PollsAt == { i \in DOMAIN ulog : ulog[i].ev = "poll" }
ReportsVerdict(i) == ulog[i].arg \in {"Successful", "Failed"}
TimeoutError == "Timed out waiting for Lambda update to complete"

\* C29: wait_for_lambda_update stops at the first poll that reports
\* 'Successful' (it returns True) or 'Failed' (it raises the error carrying
\* the reason), with no poll or sleep after it; the timeout error is raised only
\* after max_attempts polls that all reported neither; there are never more
\* than max_attempts polls.
C29_StopsAtFirstVerdict ==
    /\ \A i \in PollsAt :
          ReportsVerdict(i) =>
              /\ \A j \in DOMAIN ulog : j > i => ulog[j].ev \notin {"poll", "sleep"}
              /\ waited = (IF ulog[i].arg = "Successful"
                             THEN "True" ELSE "Lambda update failed: reason")
    /\ waited = TimeoutError =>
          /\ Cardinality(PollsAt) = max_attempts
          /\ \A i \in PollsAt : ~ReportsVerdict(i)
    /\ Cardinality(PollsAt) <= max_attempts

\* what the loop does keep: a poll reporting 'Successful' is the
\* last thing wait_for_lambda_update does and makes it return True, and the
\* polls never exceed max_attempts
SuccessStopsAndPollsBounded ==
    /\ \A i \in PollsAt :
          ulog[i].arg = "Successful" =>
              /\ \A j \in DOMAIN ulog : j > i => ulog[j].ev \notin {"poll", "sleep"}
              /\ waited = "True"
    /\ Cardinality(PollsAt) <= max_attempts

\* a poll reported 'Failed' and the function slept and polled again
PolledAfterFailed ==
    \E i, j \in PollsAt : i < j /\ ulog[i].arg = "Failed"

Responses == SelectSeq(ulog, LAMBDA e : e.ev = "send")
AsksUpdate == cfn_event.event.RequestType \in {"Create", "Update"}
Required == {"FunctionName", "AgentId", "AgentAliasId"}
MissingProperty ==
    \E k \in Required :
        \/ k \notin DOMAIN cfn_event.event.ResourceProperties
        \/ cfn_event.event.ResourceProperties[k] = <<>>
\* the configuration was written and a later poll saw the update succeed
UpdateCompleted ==
    /\ lambda_status = "Successful"
    /\ \E i, j \in DOMAIN ulog :
          /\ i < j
          /\ ulog[i] = Did("update_function_configuration", "ok")
          /\ ulog[j] = Did("poll", "Successful")
UpdateAttempted == \E i \in DOMAIN ulog : ulog[i].ev = "get_function_configuration"
ExactlyOneResponse ==
    /\ upc # "done" => Responses = <<>>
    /\ upc = "done" =>
          /\ Len(Responses) = 1
          /\ ulog[Len(ulog)].ev = "send"
          /\ Responses[1].arg \in {"SUCCESS", "FAILED"}
          /\ (Responses[1].arg = "FAILED") <=>
                 (AsksUpdate /\ (MissingProperty \/ UpdateRaises(cfn_event.api)
                                    \/ waited = TimeoutError))
          /\ ~AsksUpdate => ~UpdateAttempted
          /\ (AsksUpdate /\ Responses[1].arg = "SUCCESS") => UpdateCompleted

====
